---- MODULE Spec2Model ----
(***************************************************************************)
(* HaruQuant decision pipeline.                                            *)
(*                                                                         *)
(* Part I   the swing-structure signal engine of controller/technicals.py  *)
(*          and controller/strategy.py, run over a price series that grows *)
(*          bar by bar.                                                    *)
(* Part II  the portfolio risk engine of controller/risk.py and the live   *)
(*          decision cycle of scripts/live_run.py.                         *)
(* Part III position sizing of controller/order.py.                        *)
(* Part IV  the bars behind the volatility and the correlation of a run.   *)
(* Part V   the task manager of app/core/async_framework.py on the event   *)
(*          loop: semaphore, ready queue, cancellation.                    *)
(* Part VI  crash bookkeeping of app/core/crash_recovery.py and the start  *)
(*          of the bot in app/core/bot.py.                                 *)
(* Part VII the retry decorator of app/core/utils.py.                      *)
(* Part VIII the monitor of app/core/system_monitor.py.                    *)
(*                                                                         *)
(* Prices are small integers.  Quotients the code forms in floating point  *)
(* (the oscillator, the ATR) are kept as numerator and denominator and are *)
(* compared by cross-multiplication, so a comparison with a threshold is   *)
(* exact, equality with the threshold included.                            *)
(***************************************************************************)
EXTENDS Integers, Sequences, FiniteSets, TLC

(***************************************************************************)
(* Bounds of the model.                                                    *)
(***************************************************************************)
\* longest price series of the ranging feed
MaxBars == 5
\* longest price series of the zigzag feed
MaxZigZagBars == 8
\* longest price series of the swing feed
MaxSwingBars == 8
\* period handed to calculate_willpct_swing_lines (the code's default is
\* g_willpct_period = 6; the model runs a short period so that the warm-up
\* fits into the series)
williamsR == 1

(***************************************************************************)
(* Program constants.                                                      *)
(***************************************************************************)
\* np.nan: the undefined value of a column
NaN == 99
\* Williams %R thresholds of calculate_willpct_swing_lines
UpperThreshold == -20
LowerThreshold == -80
\* default lookback of calculate_breakout_candles_swing_lines
BreakoutLookback == 2
\* default atr_period of calculate_atr
AtrPeriod == 12

VARIABLES
    feed,             \* which market-data generator drives this behaviour
    df,               \* the PriceSeries: a sequence of candles
    stage,            \* which derived columns df carries
    variant,          \* which swing-state engine produced 'swingline'
    swingline,        \* column 'swingline'
    signal,           \* column 'signal' of calculate_swingline_alerts
    isPivot,          \* column 'isPivot'
    position,         \* column 'position' of calculate_doubles_signals
    strategy_signal,  \* text returned by williams_percent_momentum_strategy
    compared,         \* the arrays 'highs' and 'lows' the strategy read
    positions_get,    \* what mt5.positions_get() returns: "None" or a sequence
    symbol_info,      \* symbol -> whether mt5.symbol_info(symbol) is usable
    portfolio,        \* the PortfolioRiskMan object in use
    cursor,           \* live_run: index into g_symbols_forex of the next symbol
    alerts,           \* live_run: the alerts sent in this call
    evaluation,       \* live_run: the what-if evaluation of the last candidate
    thread,           \* live_run: "idle", "running", "returned" or what it raised
    run_log,          \* the calls of portfolio.run() on the book as it is
    optimized,        \* what get_optimized_lot_sizes returned for that book
    sizing,           \* the last call of get_position_size and its result
    reference,        \* the return windows behind the last run's statistics
    manager,          \* the TaskManager: its tasks and its semaphore
    task,             \* name -> the AsyncTask of that name
    ready,            \* the event loop's queue of scheduled tasks
    caller,           \* the coroutine that uses the manager
    clock,            \* datetime.now(), in hours
    bot_state,        \* BotState.state as persisted
    crash_log,        \* the hours at which a crash was recorded
    restart,          \* the last call of should_restart and its result
    bot,              \* the last TradingBot.start and the failed starts
    retry,            \* a call of a coroutine wrapped by retry_on_exception
    monitor,          \* the SystemMonitor: its task reference and stop event
    loops,            \* id -> whether that monitor loop task exists
    stops             \* the suspended calls of stop and the last return

signalVars == <<feed, df, stage, variant, swingline, signal, isPivot, position,
                strategy_signal, compared>>

riskVars == <<positions_get, symbol_info, portfolio, cursor, alerts,
              evaluation, thread, run_log, optimized>>

utilVars == <<sizing, reference>>

coreVars == <<manager, task, ready, caller>>

crashVars == <<clock, bot_state, crash_log, restart, bot>>

serviceVars == <<retry, monitor, loops, stops>>

vars == <<signalVars, riskVars, utilVars, coreVars, crashVars, serviceVars>>

(***************************************************************************)
(* Small helpers.                                                          *)
(***************************************************************************)
Max(S) == CHOOSE x \in S : \A y \in S : y <= x
Min(S) == CHOOSE x \in S : \A y \in S : x <= y
Abs(x) == IF x < 0 THEN -x ELSE x

\* pandas .tail(n) / [-n:] of a sequence
TailN(s, n) ==
    IF Len(s) <= n THEN s ELSE SubSeq(s, Len(s) - n + 1, Len(s))

\* pandas comparison '!=' on a float column: NaN differs from everything
Differs(a, b) == a = NaN \/ b = NaN \/ a # b

\* pandas .shift(k) read at row i (rows are 1..Len)
Shift(col, i, k) == IF i - k >= 1 THEN col[i - k] ELSE NaN

\* pandas .ffill(): NaN takes the last earlier value that is not NaN
ffill(col) ==
    [i \in 1..Len(col) |->
        LET J == {j \in 1..i : col[j] # NaN}
        IN  IF J = {} THEN NaN ELSE col[Max(J)]]

(***************************************************************************)
(* Indicator library.                                                      *)
(***************************************************************************)
\* ta.momentum.williams_r at row i: -100 * (hh - close) / (hh - ll) over the
\* last 'period' rows, NaN while the window is incomplete or flat (0/0).
calculate_williams_percent(d, i, period) ==
    IF i < period \/ i < 1
    THEN [nan |-> TRUE, num |-> 0, den |-> 1]
    ELSE LET W  == (i - period + 1)..i
             hh == Max({d[j].High : j \in W})
             ll == Min({d[j].Low : j \in W})
         IN  IF hh = ll
             THEN [nan |-> TRUE, num |-> 0, den |-> 1]
             ELSE [nan |-> FALSE, num |-> -100 * (hh - d[i].Close),
                   den |-> hh - ll]

\* w > t and w < t for an oscillator value w = num/den (den > 0); every
\* comparison with NaN is False
WprAbove(w, t) == ~w.nan /\ w.num > t * w.den
WprBelow(w, t) == ~w.nan /\ w.num < t * w.den
WprEquals(w, t) == ~w.nan /\ w.num = t * w.den

\* true range of row i: max(High-Low, |High-prev_close|, |Low-prev_close|),
\* the last two NaN (skipped by max) on the first row
TrueRange(d, i) ==
    IF i = 1 THEN d[i].High - d[i].Low
    ELSE Max({d[i].High - d[i].Low,
              Abs(d[i].High - d[i - 1].Close),
              Abs(d[i].Low - d[i - 1].Close)})

RECURSIVE SumTrueRange(_, _, _)
SumTrueRange(d, lo, hi) ==
    IF lo > hi THEN 0 ELSE TrueRange(d, hi) + SumTrueRange(d, lo, hi - 1)

\* calculate_atr at row i: rolling(window=atr_period, min_periods=1).mean()
calculate_atr(d, i, atr_period) ==
    LET lo == IF i - atr_period + 1 < 1 THEN 1 ELSE i - atr_period + 1
    IN  [sum |-> SumTrueRange(d, lo, i), cnt |-> i - lo + 1]

\* atr >= x
AtrAtLeast(atr, x) == atr.sum >= x * atr.cnt

(***************************************************************************)
(* Swing-state engine.                                                     *)
(***************************************************************************)
\* np.select of calculate_willpct_swing_lines at row i, on the oscillator
\* shifted by one row (WPR) and by two rows (prev_WPR)
WillPctSelect(d, i, period) ==
    LET WPR      == calculate_williams_percent(d, i - 1, period)
        prev_WPR == calculate_williams_percent(d, i - 2, period)
    IN  IF WprAbove(WPR, UpperThreshold) /\ WprBelow(prev_WPR, UpperThreshold)
        THEN 1
        ELSE IF WprBelow(WPR, LowerThreshold)
                /\ WprAbove(prev_WPR, LowerThreshold)
        THEN -1
        ELSE NaN

calculate_willpct_swing_lines(d, period) ==
    ffill([i \in 1..Len(d) |-> WillPctSelect(d, i, period)])

\* Python's slice bound on a sequence of n rows (0-based)
SliceBound(a, n) ==
    IF a < 0 THEN (IF a + n < 0 THEN 0 ELSE a + n)
    ELSE (IF a > n THEN n ELSE a)

\* the 0-based rows of .iloc[a:b] of a column of n rows
IlocSlice(a, b, n) == {k \in 0..(n - 1) : SliceBound(a, n) <= k /\ k < SliceBound(b, n)}

\* trends[i] of calculate_breakout_candles_swing_lines, i 0-based
BreakoutTrend(d, i, lookback) ==
    IF i < lookback THEN 0
    ELSE LET close_price == d[i].Close      \* df.iloc[i-1], row i 1-based
             rows  == IlocSlice(i - 1 - lookback, i - 1, Len(d))
         IN  IF \A k \in rows : close_price > d[k + 1].High THEN 1
             ELSE IF \A k \in rows : close_price < d[k + 1].Low THEN -1
             ELSE NaN

calculate_breakout_candles_swing_lines(d, lookback) ==
    ffill([i \in 1..Len(d) |-> BreakoutTrend(d, i - 1, lookback)])

(***************************************************************************)
(* Signal generator: base rule.                                            *)
(***************************************************************************)
\* an alert also on the bar at which the state first becomes defined
first_state_alerts(sw) ==
    [i \in 1..Len(sw) |->
        IF sw[i] = 1 /\ Shift(sw, i, 1) # 1 THEN 1
        ELSE IF sw[i] = -1 /\ Shift(sw, i, 1) # -1 THEN -1
        ELSE 0]

\* an alert on every bar of a defined state, not only on its first
level_triggered_alerts(sw) ==
    [i \in 1..Len(sw) |->
        IF sw[i] = 1 THEN 1 ELSE IF sw[i] = -1 THEN -1 ELSE 0]

calculate_swingline_alerts(sw) ==
    [i \in 1..Len(sw) |->
        IF sw[i] = 1 /\ Shift(sw, i, 1) = -1 THEN 1
        ELSE IF sw[i] = -1 /\ Shift(sw, i, 1) = 1 THEN -1
        ELSE 0]

(***************************************************************************)
(* Pivot extractor.                                                        *)
(***************************************************************************)
\* rows at which (swingline != swingline.shift()) is True: a group starts
GroupStarts(sw) == {i \in 1..Len(sw) : Differs(sw[i], Shift(sw, i, 1))}

\* the rows of the group of row i, given the rows at which groups start
GroupOf(starts, n, i) ==
    LET first == Max({j \in starts : j <= i})
        later == {j \in starts : j > i}
        last  == IF later = {} THEN n ELSE Min(later) - 1
    IN  first..last

\* Series.idxmax / idxmin: the first row holding the extreme
\* the last bar of the run in place of its highest
IdxLast(d, rows) == Max(rows)

IdxMax(d, rows) ==
    Min({i \in rows : \A j \in rows : d[j].High <= d[i].High})
IdxMin(d, rows) ==
    Min({i \in rows : \A j \in rows : d[j].Low >= d[i].Low})

calculate_fractal_pivot_points(d, sw) ==
    LET starts == GroupStarts(sw)
    IN  [i \in 1..Len(d) |->
            IF sw[i] = -1 /\ i = IdxMin(d, GroupOf(starts, Len(d), i)) THEN -1
            ELSE IF sw[i] = 1 /\ i = IdxMax(d, GroupOf(starts, Len(d), i)) THEN 1
            ELSE NaN]

\* rows up to 'upto' whose isPivot equals 'kind', oldest first
PivotRows(ip, kind, upto) ==
    LET IsKind(i) == ip[i] = kind
    IN  SelectSeq([i \in 1..upto |-> i], IsKind)

(***************************************************************************)
(* Signal generator: double top / double bottom variant.                   *)
(***************************************************************************)
\* the three conditions of calculate_doubles_signals over the last three
\* pivot highs and lows, oldest first (Python's [0], [1], [2] are 1, 2, 3)
order_condition(idxhighs, idxlows) ==
    /\ idxlows[1] < idxhighs[1]
    /\ idxhighs[1] < idxlows[2]
    /\ idxlows[2] < idxhighs[2]
    /\ idxhighs[2] < idxlows[3]
    /\ idxlows[3] < idxhighs[3]

double_bottom(highs, lows) ==
    /\ highs[1] > lows[2]
    /\ lows[2] < highs[1]
    /\ highs[1] > highs[2] /\ highs[2] > lows[3] /\ lows[3] > lows[2]
    /\ highs[2] > highs[3] /\ highs[3] > lows[3]

double_top(highs, lows) ==
    /\ lows[1] < highs[2]
    /\ lows[1] < lows[2] /\ lows[2] < highs[2]
    /\ highs[2] > highs[3] /\ highs[3] > lows[2]
    /\ highs[3] > lows[3] /\ lows[3] > lows[2]

\* the value calculate_doubles_signals leaves in 'position' at row i.  The
\* pivots are those of the rows up to and including i (df.loc[:index]); the
\* double-top assignment comes second in the code and overwrites the
\* double-bottom one.  (The ATR column the function computes is not read.)
DoublesPosition(d, sig, ip, i) ==
    IF sig[i] = 0 THEN 0
    ELSE
    LET idxhighs == TailN(PivotRows(ip, 1, i), 3)
        idxlows  == TailN(PivotRows(ip, -1, i), 3)
        highs    == [k \in 1..Len(idxhighs) |-> d[idxhighs[k]].High]
        lows     == [k \in 1..Len(idxlows) |-> d[idxlows[k]].Low]
    IN  IF Len(highs) > 2 /\ Len(lows) > 2
        THEN IF order_condition(idxhighs, idxlows) /\ double_top(highs, lows)
             THEN -1
             ELSE IF order_condition(idxhighs, idxlows)
                     /\ double_bottom(highs, lows)
             THEN 1
             ELSE 0
        ELSE 0

calculate_doubles_signals(d, sig, ip) ==
    [i \in 1..Len(d) |-> DoublesPosition(d, sig, ip, i)]

(***************************************************************************)
(* Signal generator: validated variant.                                    *)
(***************************************************************************)
\* buy_condition1 and sell_condition1; highs and lows hold the last two
\* pivot prices, oldest first
\* a Buy without the ATR tolerance on the lows
BuyConditionStrict(highs, lows, atr) ==
    /\ highs[2] < highs[1]
    /\ lows[2] > lows[1]

BuyCondition(highs, lows, atr) ==
    /\ highs[2] < highs[1]
    /\ (lows[2] > lows[1] \/ AtrAtLeast(atr, Abs(lows[2] - lows[1])))

SellCondition(highs, lows, atr) ==
    /\ lows[2] > lows[1]
    /\ (highs[2] < highs[1] \/ AtrAtLeast(atr, Abs(highs[2] - highs[1])))

\* the pivots of the closed runs only: those before row 'upto'
ClosedPivotRows(ip, kind, upto) ==
    LET IsKind(i) == ip[i] = kind
    IN  SelectSeq([i \in 1..(upto - 1) |-> i], IsKind)

\* the rows the strategy takes its pivots from
StrategyPivotRows(ip, kind, upto) == PivotRows(ip, kind, upto)

NoPivots == [highs |-> <<>>, lows |-> <<>>]

\* the arrays 'highs' and 'lows' of the strategy: the prices of the last two
\* pivot highs and of the last two pivot lows, oldest first
LastPivots(d, ip) ==
    LET idxhighs == TailN(StrategyPivotRows(ip, 1, Len(d)), 2)
        idxlows  == TailN(StrategyPivotRows(ip, -1, Len(d)), 2)
    IN  [highs |-> [k \in 1..Len(idxhighs) |-> d[idxhighs[k]].High],
         lows  |-> [k \in 1..Len(idxlows) |-> d[idxlows[k]].Low]]

\* the text williams_percent_momentum_strategy returns for the last row,
\* given the columns it has computed
StrategyText(d, sig, ip) ==
    LET n     == Len(d)
        highs == LastPivots(d, ip).highs
        lows  == LastPivots(d, ip).lows
        enough    == Len(highs) > 1 /\ Len(lows) > 1
        atr       == calculate_atr(d, n, AtrPeriod)
        valid_buy  == enough /\ BuyCondition(highs, lows, atr)
        valid_sell == enough /\ SellCondition(highs, lows, atr)
    IN  IF sig[n] = 1 /\ valid_buy THEN "Buy"
        ELSE IF sig[n] = -1 /\ valid_sell THEN "Sell"
        ELSE "Neutral"

(***************************************************************************)
(* Market-data feeds: the candles the provider may deliver next.           *)
(***************************************************************************)
Candle(h, l, c) == [High |-> h, Low |-> l, Close |-> c]

\* ranging feed: two price ranges; the closes of the wide one put a
\* one-bar oscillator at 0, -20, -80 and -100
RangingCandles ==
    {Candle(6, 1, 6), Candle(6, 1, 5), Candle(6, 1, 2), Candle(6, 1, 1),
     Candle(5, 2, 5), Candle(5, 2, 2)}

\* zigzag feed: nested ranges, closing at the high and at the low in turn
ZigZagRanges == {<<6, 1>>, <<5, 2>>, <<4, 3>>}
ZigZagCandles(n) ==
    {Candle(r[1], r[2], IF n % 2 = 1 THEN r[1] ELSE r[2]) : r \in ZigZagRanges}

\* swing feed: a turn bar, the opposite turn bar, then a bar closing inside
\* its range, so that every second run of the swing line lasts two bars;
\* the first bar chooses which direction has the long runs
SwingRanges == {<<6, 1>>, <<5, 2>>}
SwingCandles(d) ==
    LET n     == Len(d) + 1
        first == IF n = 1 THEN 0 ELSE IF d[1].Close = d[1].High THEN 1 ELSE -1
        turn  == IF (n - 1) % 3 = 0 THEN first ELSE -first
    IN  IF n = 1
        THEN {Candle(r[1], r[2], r[1]) : r \in SwingRanges}
                 \cup {Candle(r[1], r[2], r[2]) : r \in SwingRanges}
        ELSE IF (n - 1) % 3 = 2
        THEN {Candle(r[1], r[2], 3) : r \in SwingRanges}
        ELSE {Candle(r[1], r[2], IF turn = 1 THEN r[1] ELSE r[2]) :
                  r \in SwingRanges \cup {<<4, 3>>}}

NextCandles ==
    IF feed = "zigzag"
    THEN (IF Len(df) < MaxZigZagBars THEN ZigZagCandles(Len(df) + 1) ELSE {})
    ELSE IF feed = "swing"
    THEN (IF Len(df) < MaxSwingBars THEN SwingCandles(df) ELSE {})
    ELSE (IF Len(df) < MaxBars THEN RangingCandles ELSE {})

(***************************************************************************)
(* Part I actions.                                                         *)
(***************************************************************************)
InitSignal(f) ==
    /\ feed = f
    /\ df = <<>>
    /\ stage = "raw"
    /\ variant = "none"
    /\ swingline = <<>>
    /\ signal = <<>>
    /\ isPivot = <<>>
    /\ position = <<>>
    /\ strategy_signal = "none"
    /\ compared = NoPivots

\* fetch_data: a new bar has closed; the derived columns are recomputed
\* from scratch each cycle
FetchData ==
    /\ \E c \in NextCandles : df' = Append(df, c)
    /\ stage' = "raw"
    /\ variant' = "none"
    /\ swingline' = <<>>
    /\ signal' = <<>>
    /\ isPivot' = <<>>
    /\ position' = <<>>
    /\ strategy_signal' = "none"
    /\ compared' = NoPivots
    /\ UNCHANGED feed
    /\ UNCHANGED <<riskVars, utilVars, coreVars, crashVars,
                   serviceVars>>

CalculateWillpctSwingLines ==
    /\ stage = "raw" /\ Len(df) >= 1
    /\ swingline' = calculate_willpct_swing_lines(df, williamsR)
    /\ variant' = "willpct"
    /\ stage' = "swing"
    /\ UNCHANGED <<feed, df, signal, isPivot, position, strategy_signal,
                   compared>>
    /\ UNCHANGED <<riskVars, utilVars, coreVars, crashVars,
                   serviceVars>>

CalculateBreakoutCandlesSwingLines ==
    /\ stage = "raw" /\ Len(df) >= 1
    /\ swingline' = calculate_breakout_candles_swing_lines(df, BreakoutLookback)
    /\ variant' = "breakout"
    /\ stage' = "swing"
    /\ UNCHANGED <<feed, df, signal, isPivot, position, strategy_signal,
                   compared>>
    /\ UNCHANGED <<riskVars, utilVars, coreVars, crashVars,
                   serviceVars>>

CalculateSwinglineAlerts ==
    /\ stage = "swing"
    /\ signal' = calculate_swingline_alerts(swingline)
    /\ stage' = "alerts"
    /\ UNCHANGED <<feed, df, variant, swingline, isPivot, position,
                   strategy_signal, compared>>
    /\ UNCHANGED <<riskVars, utilVars, coreVars, crashVars,
                   serviceVars>>

CalculateFractalPivotPoints ==
    /\ stage = "alerts"
    /\ isPivot' = calculate_fractal_pivot_points(df, swingline)
    /\ stage' = "pivots"
    /\ UNCHANGED <<feed, df, variant, swingline, signal, position,
                   strategy_signal, compared>>
    /\ UNCHANGED <<riskVars, utilVars, coreVars, crashVars,
                   serviceVars>>

CalculateDoublesSignals ==
    /\ stage = "pivots"
    /\ position' = calculate_doubles_signals(df, signal, isPivot)
    /\ stage' = "doubles"
    /\ UNCHANGED <<feed, df, variant, swingline, signal, isPivot,
                   strategy_signal, compared>>
    /\ UNCHANGED <<riskVars, utilVars, coreVars, crashVars,
                   serviceVars>>

\* williams_percent_momentum_strategy(symbol, df): swing lines, alerts and,
\* only with a base signal on the last row, pivots, ATR and validation;
\* without one it returns Neutral before the pivots are computed
WilliamsPercentMomentumStrategy ==
    /\ stage = "raw" /\ Len(df) >= 1
    /\ \E sw \in {calculate_willpct_swing_lines(df, williamsR)} :
       \E sig \in {calculate_swingline_alerts(sw)} :
          /\ swingline' = sw
          /\ signal' = sig
          /\ IF sig[Len(df)] = 0
             THEN /\ isPivot' = <<>>
                  /\ strategy_signal' = "Neutral"
                  /\ compared' = NoPivots
             ELSE \E ip \in {calculate_fractal_pivot_points(df, sw)} :
                  /\ isPivot' = ip
                  /\ strategy_signal' = StrategyText(df, sig, ip)
                  /\ compared' = LastPivots(df, ip)
    /\ variant' = "willpct"
    /\ stage' = "strategy"
    /\ UNCHANGED <<feed, df, position>>
    /\ UNCHANGED <<riskVars, utilVars, coreVars, crashVars,
                   serviceVars>>

NextSignal ==
    \/ FetchData
    \/ CalculateWillpctSwingLines
    \/ CalculateBreakoutCandlesSwingLines
    \/ CalculateSwinglineAlerts
    \/ CalculateFractalPivotPoints
    \/ CalculateDoublesSignals
    \/ WilliamsPercentMomentumStrategy

(***************************************************************************)
(* Part II: the portfolio risk engine (controller/risk.py).                *)
(*                                                                         *)
(* Lot sizes are integers in hundredths of a lot.  A Python dict is a      *)
(* sequence of <<key, value>> pairs in insertion order, because the engine *)
(* reads dict values by position.  Money and volatility are fixed-point    *)
(* integers; weights are in hundredths.                                    *)
(***************************************************************************)
DictKeys(d) == [i \in 1..Len(d) |-> d[i][1]]
DictValues(d) == [i \in 1..Len(d) |-> d[i][2]]
DictHas(d, k) == \E i \in 1..Len(d) : d[i][1] = k
DictGet(d, k) == d[CHOOSE i \in 1..Len(d) : d[i][1] = k][2]
\* d[k] = v: an existing key keeps its place, a new key goes last
DictSet(d, k, v) ==
    IF DictHas(d, k)
    THEN [i \in 1..Len(d) |-> IF d[i][1] = k THEN <<k, v>> ELSE d[i]]
    ELSE Append(d, <<k, v>>)
\* del d[k]
DictDel(d, k) ==
    LET Keep(e) == e[1] # k
    IN  SelectSeq(d, Keep)

\* quotient rounded towards zero
Quot(a, b) == IF a < 0 THEN -((-a) \div b) ELSE a \div b

RECURSIVE ISqrtBetween(_, _, _)
ISqrtBetween(n, lo, hi) ==
    IF lo >= hi THEN lo
    ELSE LET mid == (lo + hi + 1) \div 2
         IN  IF mid * mid <= n THEN ISqrtBetween(n, mid, hi)
             ELSE ISqrtBetween(n, lo, mid - 1)
\* np.sqrt on the fixed-point grid: the largest r with r * r <= n
ISqrt(n) == ISqrtBetween(n, 0, n)

RECURSIVE SumSeq(_)
SumSeq(q) == IF q = <<>> THEN 0 ELSE Head(q) + SumSeq(Tail(q))

(***************************************************************************)
(* What the broker terminal and the D1 history give for a symbol.          *)
(***************************************************************************)
Symbols == {"EURUSD", "GBPUSD"}

\* df['volatility'].iloc[-2] of the symbol's history, in 1e-5
Volatility(symbol) == IF symbol = "EURUSD" THEN 20 ELSE 30
\* the rolling correlation of two symbols at index[-2], in hundredths
Correlation(pair1, pair2) == 50
\* (trade_tick_value / trade_tick_size) * bid, per hundredth of a lot
NominalPerLot(symbol) == IF symbol = "EURUSD" THEN 1 ELSE 2
\* z_score of calculate_var, in hundredths: the 5% percentile of 100000
\* fresh draws of np.random.normal, which differs from call to call
ZScores == {164, 165}

(***************************************************************************)
(* PortfolioRiskMan.                                                       *)
(***************************************************************************)
\* __init__
PortfolioRiskMan ==
    [positions |-> <<>>, data |-> <<>>, nominal_values |-> <<>>,
     portfolio_std_dev |-> 0, portfolio_nominal_value |-> 0,
     position_weights |-> <<>>, std_dev_returns |-> <<>>,
     correlation_objects |-> {}, portfolio_var |-> 0, raised |-> "none"]

remove_position(self, symbol) ==
    IF DictHas(self.positions, symbol)
    THEN [self EXCEPT !.positions = DictDel(@, symbol)]
    ELSE self

add_position(self, symbol, lot_size) ==
    IF DictHas(self.positions, symbol)
    THEN LET total == DictGet(self.positions, symbol) + lot_size
             added == [self EXCEPT !.positions = DictSet(@, symbol, total)]
         IN  IF total = 0 THEN remove_position(added, symbol) ELSE added
    ELSE [self EXCEPT !.positions = DictSet(@, symbol, lot_size)]

\* get_data and calculate_returns: one D1 frame per symbol of the book
get_data(self, symbols) == [self EXCEPT !.data = symbols]

RECURSIVE SetVolatilities(_, _)
SetVolatilities(std_dev_returns, symbols) ==
    IF symbols = <<>> THEN std_dev_returns
    ELSE SetVolatilities(
             DictSet(std_dev_returns, Head(symbols), Volatility(Head(symbols))),
             Tail(symbols))

\* calculate_volatility: std_dev_returns[symbol] for every frame; entries of
\* earlier runs stay
calculate_volatility(self) ==
    [self EXCEPT !.std_dev_returns = SetVolatilities(@, self.data)]

\* calculate_correlations: both directions of every pair of book symbols
calculate_correlations(self) ==
    LET symbols == DictKeys(self.positions)
    IN  [self EXCEPT !.correlation_objects =
            @ \cup {pair \in {<<symbols[i], symbols[j]>> :
                                  i, j \in 1..Len(symbols)} :
                        pair[1] # pair[2]}]

\* calculate_portfolio_nominal_value: a symbol without symbol_info is passed
\* over ('continue') and gets no nominal value
calculate_portfolio_nominal_value(self, info) ==
    LET Priced(e) == info[e[1]]
        priced    == SelectSeq(self.positions, Priced)
        nominal   == [i \in 1..Len(priced) |->
                        <<priced[i][1], priced[i][2] * NominalPerLot(priced[i][1])>>]
    IN  [self EXCEPT
            !.nominal_values = nominal,
            !.portfolio_nominal_value =
                SumSeq([i \in 1..Len(nominal) |-> Abs(nominal[i][2])])]

\* calculate_weights: with a zero nominal value the weights are left as
\* they were
calculate_weights(self) ==
    IF self.portfolio_nominal_value = 0 THEN self
    ELSE [self EXCEPT !.position_weights =
            [i \in 1..Len(self.nominal_values) |->
                <<self.nominal_values[i][1],
                  Quot(self.nominal_values[i][2] * 100,
                       self.portfolio_nominal_value)>>]]

\* calculate_portfolio_std_dev: the covariance matrix is indexed by the
\* book's symbols, the volatilities and the weights are read by position
calculate_portfolio_std_dev(self) ==
    LET position_weights == DictValues(self.position_weights)
        std_dev_returns  == DictValues(self.std_dev_returns)
        symbols          == DictKeys(self.positions)
        n                == Len(symbols)
        cov(i, j) ==
            IF i = j THEN std_dev_returns[i] * std_dev_returns[i]
            ELSE Quot(std_dev_returns[i] * std_dev_returns[j]
                        * Correlation(symbols[i], symbols[j]), 100)
        variance ==
            SumSeq([i \in 1..n |->
                SumSeq([j \in 1..n |->
                    position_weights[i] * cov(i, j) * position_weights[j]])])
    IN  IF n > Len(std_dev_returns)
        THEN [self EXCEPT !.raised = "IndexError"]
        ELSE IF \E i, j \in 1..n :
                    i # j /\ <<symbols[i], symbols[j]>> \notin self.correlation_objects
        THEN [self EXCEPT !.raised = "KeyError"]
        ELSE IF Len(position_weights) # n
        THEN [self EXCEPT !.raised = "ValueError"]
        ELSE [self EXCEPT !.portfolio_std_dev =
                ISqrt(Quot(IF variance < 0 THEN 0 ELSE variance, 10000))]

\* calculate_var
calculate_var(self, z_score) ==
    [self EXCEPT !.portfolio_var =
        self.portfolio_std_dev * z_score * self.portfolio_nominal_value]

\* run: the object after the call; the call returns its portfolio_var, or
\* raises what 'raised' names
run(self, info, z_score) ==
    LET got      == get_data([self EXCEPT !.raised = "none"],
                             DictKeys(self.positions))
        vols     == calculate_volatility(got)
        corrs    == calculate_correlations(vols)
        nominal  == calculate_portfolio_nominal_value(corrs, info)
        weighted == calculate_weights(nominal)
        stddev   == calculate_portfolio_std_dev(weighted)
    IN  IF stddev.raised # "none" THEN stddev
        ELSE calculate_var(stddev, z_score)

(***************************************************************************)
(* Weight optimization.                                                    *)
(***************************************************************************)
\* the weights the minimizer can return, hundredths: the model searches a
\* grid of quarters in the bounds (0, 1)
WeightGrid == {0, 25, 50, 75, 100}

\* weights' * cov_matrix * weights, volatilities and correlations taken by
\* symbol
PortfolioVariance(self, symbols, weights) ==
    SumSeq([i \in 1..Len(symbols) |->
        SumSeq([j \in 1..Len(symbols) |->
            weights[i] * weights[j]
                * (IF i = j
                   THEN DictGet(self.std_dev_returns, symbols[i])
                            * DictGet(self.std_dev_returns, symbols[i])
                   ELSE Quot(DictGet(self.std_dev_returns, symbols[i])
                                * DictGet(self.std_dev_returns, symbols[j])
                                * Correlation(symbols[i], symbols[j]), 100))])])

\* minimize(portfolio_std, ...) under sum(x) = 1 and 0 <= x <= 1
MinVarianceWeights(self, symbols) ==
    LET feasible == {w \in [1..Len(symbols) -> WeightGrid] : SumSeq(w) = 100}
        scored   == {<<PortfolioVariance(self, symbols, w), w>> : w \in feasible}
        best     == CHOOSE e \in scored : \A f \in scored : e[1] <= f[1]
    IN  best[2]

\* optimize_portfolio without the test of optimized.success: the weights the
\* optimizer stopped at are always stored
unchecked_optimize_portfolio(self, success) ==
    LET symbols == DictKeys(self.positions)
        n       == Len(symbols)
    IN  IF \/ \E i \in 1..n : ~DictHas(self.std_dev_returns, symbols[i])
           \/ \E i, j \in 1..n :
                 i # j /\ <<symbols[i], symbols[j]>> \notin self.correlation_objects
        THEN [self EXCEPT !.raised = "KeyError"]
        ELSE IF n = 0
        THEN [self EXCEPT !.raised = "ZeroDivisionError"]
        ELSE LET weights == MinVarianceWeights(self, symbols)
             IN  [self EXCEPT !.raised = "none",
                    !.position_weights =
                        [i \in 1..n |-> <<symbols[i], weights[i]>>]]

\* optimize_portfolio: on success the weights are replaced by the
\* minimizer's, otherwise those of the last run stay
optimize_portfolio(self, success) ==
    LET symbols == DictKeys(self.positions)
        n       == Len(symbols)
    IN  IF \/ \E i \in 1..n : ~DictHas(self.std_dev_returns, symbols[i])
           \/ \E i, j \in 1..n :
                 i # j /\ <<symbols[i], symbols[j]>> \notin self.correlation_objects
        THEN [self EXCEPT !.raised = "KeyError"]
        ELSE IF n = 0
        THEN [self EXCEPT !.raised = "ZeroDivisionError"]
        ELSE IF success
        THEN LET weights == MinVarianceWeights(self, symbols)
             IN  [self EXCEPT !.raised = "none",
                    !.position_weights =
                        [i \in 1..n |-> <<symbols[i], weights[i]>>]]
        ELSE [self EXCEPT !.raised = "none"]

\* round(x, 2) of num/den on the grid of hundredths, with its sign
RoundQuot(num, den) ==
    LET sign == IF (num < 0) = (den < 0) THEN 1 ELSE -1
    IN  sign * ((2 * Abs(num) + Abs(den)) \div (2 * Abs(den)))

\* the loop body of get_optimized_lot_sizes for one symbol: the optimized
\* nominal value divided by the nominal value per lot, rounded, times the
\* sign of the position
OptimizedLotSize(self, symbol, weight) ==
    LET lots    == DictGet(self.positions, symbol)
        nominal == DictGet(self.nominal_values, symbol)
        num     == weight * self.portfolio_nominal_value
                        * (IF lots = 0 THEN 1 ELSE Abs(lots))
        den     == 100 * nominal
    IN  IF den = 0
        THEN [kind |-> IF num = 0 THEN "nan" ELSE "inf", value |-> 0]
        ELSE [kind |-> "number",
              value |-> RoundQuot(num, den) * (IF lots > 0 THEN 1 ELSE -1)]

\* minimize: what the optimizer reported ("not called" when optimize_portfolio
\* raised before reaching it); weights: what optimize_portfolio returned
NoOptimized ==
    [called |-> FALSE, minimize |-> "not called", weights |-> <<>>,
     lot_sizes |-> <<>>, raised |-> "none"]

\* lines 244-252 of get_optimized_lot_sizes, on the object that
\* optimize_portfolio left
OptimizedLotSizes(after, success) ==
    LET weights == after.position_weights
        Known(e) == /\ DictHas(after.positions, e[1])
                    /\ DictHas(after.nominal_values, e[1])
    IN  IF after.raised # "none"
        THEN [portfolio |-> after,
              result |-> [NoOptimized EXCEPT !.called = TRUE,
                                             !.raised = after.raised]]
        ELSE IF \E i \in 1..Len(weights) : ~Known(weights[i])
        THEN [portfolio |-> [after EXCEPT !.raised = "KeyError"],
              result |-> [NoOptimized EXCEPT !.called = TRUE,
                                             !.raised = "KeyError"]]
        ELSE LET sizes == [i \in 1..Len(weights) |->
                            <<weights[i][1],
                              OptimizedLotSize(after, weights[i][1],
                                               weights[i][2])>>]
             IN  IF ~success
                    /\ \E i \in 1..Len(sizes) : sizes[i][2].kind # "number"
                 THEN [portfolio |-> [after EXCEPT !.raised = "ZeroDivisionError"],
                       result |-> [NoOptimized EXCEPT !.called = TRUE,
                                        !.raised = "ZeroDivisionError"]]
                 ELSE [portfolio |-> after,
                       result |-> [NoOptimized EXCEPT !.called = TRUE,
                                                      !.lot_sizes = sizes]]

\* get_optimized_lot_sizes: the object after the call and what the call
\* returned or raised
get_optimized_lot_sizes(self, success) ==
    OptimizedLotSizes(optimize_portfolio(self, success), success)

(***************************************************************************)
(* The position book driven directly: add_position, remove_position, run.  *)
(***************************************************************************)
\* largest net lot size of a symbol in the directly driven book
MaxBookLot == 10
\* lot sizes handed to add_position
BookLots == {-10, 0, 10}

NetLots(positions, symbol) ==
    IF DictHas(positions, symbol) THEN DictGet(positions, symbol) ELSE 0

AddPosition ==
    /\ thread = "idle"
    /\ \E symbol \in Symbols, lot_size \in BookLots :
          /\ Abs(NetLots(portfolio.positions, symbol) + lot_size) <= MaxBookLot
          /\ portfolio' = add_position(portfolio, symbol, lot_size)
    /\ run_log' = <<>>
    /\ UNCHANGED <<positions_get, symbol_info, cursor, alerts, evaluation,
                   thread>>
    /\ optimized' = NoOptimized
    /\ UNCHANGED <<signalVars, utilVars, coreVars, crashVars,
                   serviceVars>>

RemovePosition ==
    /\ thread = "idle"
    /\ \E symbol \in Symbols : portfolio' = remove_position(portfolio, symbol)
    /\ run_log' = <<>>
    /\ UNCHANGED <<positions_get, symbol_info, cursor, alerts, evaluation,
                   thread>>
    /\ optimized' = NoOptimized
    /\ UNCHANGED <<signalVars, utilVars, coreVars, crashVars,
                   serviceVars>>

\* portfolio.run(); run_log keeps the last two calls made since the book
\* was last written to
Run ==
    /\ thread = "idle"
    /\ \E z_score \in ZScores :
       \E after \in {run(portfolio, symbol_info, z_score)} :
          /\ portfolio' = after
          /\ run_log' = TailN(Append(run_log,
                            [returned  |-> after.portfolio_var,
                             raised    |-> after.raised]), 2)
    /\ UNCHANGED <<positions_get, symbol_info, cursor, alerts, evaluation,
                   thread>>
    /\ optimized' = NoOptimized
    /\ UNCHANGED <<signalVars, utilVars, coreVars, crashVars,
                   serviceVars>>

\* portfolio.get_optimized_lot_sizes(), called on a book that run() has
\* been called on: run() fills the volatilities, correlations and nominal
\* values it reads
GetOptimizedLotSizes ==
    /\ thread = "idle"
    /\ Len(run_log) > 0
    /\ \E success \in BOOLEAN :
       \E after \in {optimize_portfolio(portfolio, success)} :
       \E got \in {OptimizedLotSizes(after, success)} :
          /\ portfolio' = got.portfolio
          /\ optimized' =
                [got.result EXCEPT
                    !.minimize = IF after.raised # "none" THEN "not called"
                                 ELSE IF success THEN "success" ELSE "failure",
                    !.weights = IF after.raised # "none" THEN <<>>
                                ELSE after.position_weights]
    /\ UNCHANGED <<positions_get, symbol_info, cursor, alerts, evaluation,
                   thread, run_log>>
    /\ UNCHANGED <<signalVars, utilVars, coreVars, crashVars,
                   serviceVars>>

NextBook ==
    \/ AddPosition
    \/ RemovePosition
    \/ Run
    \/ GetOptimizedLotSizes

(***************************************************************************)
(* Part II: the live decision cycle (scripts/live_run.py).                 *)
(***************************************************************************)
\* most positions the broker holds when live_run is called
MaxBrokerPositions == 2
\* volumes of a broker position, hundredths of a lot
BrokerVolumes == {10}
\* settings: g_risk_threshold = 0.10 read as a fraction, so 10 percent;
\* g_min_lot_size = 0.01 and g_max_lot_size = 100 in hundredths of a lot
g_risk_threshold == 10
g_min_lot_size == 1
g_max_lot_size == 10000

g_symbols_forex == <<"EURUSD", "GBPUSD">>

\* what get_position_size returns: max(0, round(..., 2)), so 0.0 when the
\* stop is wide
PositionSizes == {0, 10}

BrokerPosition == [symbol : Symbols, type : {0, 1}, volume : BrokerVolumes]

RECURSIVE SeqsUpTo(_, _)
SeqsUpTo(S, n) ==
    IF n = 0 THEN {<<>>}
    ELSE LET shorter == SeqsUpTo(S, n - 1)
         IN  shorter \cup {Append(q, x) : q \in shorter, x \in S}

\* mt5.positions_get(): None on a terminal error, else the open positions
PositionsGetResults ==
    {[none |-> TRUE, list |-> <<>>]}
        \cup {[none |-> FALSE, list |-> q] :
                q \in SeqsUpTo(BrokerPosition, MaxBrokerPositions)}

\* line 38
vol_lots(p) == IF p.type = 1 THEN -p.volume ELSE p.volume

\* lines 37-40: every broker position goes into the book
RECURSIVE LoadPositions(_, _)
LoadPositions(book, positions) ==
    IF positions = <<>> THEN book
    ELSE LoadPositions(
             add_position(book, Head(positions).symbol, vol_lots(Head(positions))),
             Tail(positions))

\* one object serves every candidate of a call
KeptPortfolio(previous) == previous

\* line 30: 'portfolio' is bound to a new object for every candidate
NewPortfolio(previous) == PortfolioRiskMan

NoChange == [kind |-> "none", num |-> 0, den |-> 1, divided |-> FALSE]

\* lines 48-51: the float quotient is kept as num/den; a zero current VaR
\* gives inf or nan
incr_var(open_positions, proposed_value_at_risk, curr_value_at_risk) ==
    IF open_positions = 0
    THEN [kind |-> "number", num |-> 100, den |-> 1, divided |-> FALSE]
    ELSE IF curr_value_at_risk = 0
    THEN [kind |-> IF proposed_value_at_risk = 0 THEN "nan" ELSE "inf",
          num |-> 0, den |-> 1, divided |-> TRUE]
    ELSE [kind |-> "number",
          num |-> (proposed_value_at_risk - curr_value_at_risk) * 100,
          den |-> curr_value_at_risk, divided |-> TRUE]

NoEvaluation ==
    [stage |-> "none", symbol |-> "none", action |-> "none", lots |-> 0,
     open_positions |-> 0, book_before |-> <<>>, book |-> <<>>,
     curr_value_at_risk |-> 0, proposed_value_at_risk |-> 0,
     incr_var |-> NoChange, raised |-> "none"]

\* lines 28-84 for one candidate: 'stage' is how far the evaluation got,
\* 'raised' the exception that ended it
WhatIf(previous, symbol, action, size, z1, z2) ==
    LET fresh    == NewPortfolio(previous)
        loaded   == LoadPositions(fresh, positions_get.list)
        current  == run(loaded, symbol_info, z1)
        lots     == IF action = "Buy" THEN size ELSE -size
        added    == add_position(current, symbol, lots)
        proposed == run(added, symbol_info, z2)
        change   == incr_var(Len(positions_get.list), proposed.portfolio_var,
                             current.portfolio_var)
        begun    == [NoEvaluation EXCEPT !.symbol = symbol, !.action = action,
                                         !.lots = lots]
        counted  == [begun EXCEPT !.open_positions = Len(positions_get.list),
                                  !.book_before = loaded.positions]
        valued   == [counted EXCEPT !.book = added.positions,
                        !.curr_value_at_risk = current.portfolio_var]
        reported == [valued EXCEPT
                        !.proposed_value_at_risk = proposed.portfolio_var,
                        !.incr_var = change]
    IN  IF positions_get.none
        THEN [portfolio  |-> fresh,
              evaluation |-> [begun EXCEPT !.stage = "positions_get",
                                           !.raised = "TypeError"]]
        ELSE IF current.raised # "none"
        THEN [portfolio  |-> current,
              evaluation |-> [counted EXCEPT !.stage = "current",
                                             !.raised = current.raised]]
        ELSE IF proposed.raised # "none"
        THEN [portfolio  |-> proposed,
              evaluation |-> [valued EXCEPT !.stage = "proposed",
                                            !.raised = proposed.raised]]
        ELSE IF change.kind # "number"
        THEN [portfolio  |-> proposed,
              evaluation |-> [reported EXCEPT !.stage = "round",
                    !.raised = IF change.kind = "inf" THEN "OverflowError"
                               ELSE "ValueError"]]
        ELSE [portfolio  |-> proposed,
              evaluation |-> [reported EXCEPT !.stage = "alert"]]

\* live_run is called
CallLiveRun ==
    /\ thread # "running"
    /\ thread' = "running"
    /\ cursor' = 1
    /\ alerts' = <<>>
    /\ evaluation' = NoEvaluation
    /\ portfolio' = PortfolioRiskMan
    /\ UNCHANGED <<positions_get, symbol_info, run_log, optimized>>
    /\ UNCHANGED <<signalVars, utilVars, coreVars, crashVars,
                   serviceVars>>

\* one pass of the loop over g_symbols_forex
LiveRunSymbol ==
    /\ thread = "running"
    /\ cursor <= Len(g_symbols_forex)
    /\ LET symbol == g_symbols_forex[cursor]
       IN  IF ~symbol_info[symbol]
           THEN /\ cursor' = cursor + 1
                /\ UNCHANGED <<portfolio, alerts, evaluation, thread>>
           ELSE \E rates \in BOOLEAN, action \in {"Buy", "Sell", "Neutral"} :
                IF ~rates
                THEN /\ thread' = "ValueError"
                     /\ UNCHANGED <<portfolio, cursor, alerts, evaluation>>
                ELSE IF action = "Neutral"
                THEN /\ cursor' = cursor + 1
                     /\ UNCHANGED <<portfolio, alerts, evaluation, thread>>
                ELSE \E size \in PositionSizes, z1, z2 \in ZScores :
                     \E w \in {WhatIf(portfolio, symbol, action, size, z1, z2)} :
                        /\ portfolio' = w.portfolio
                        /\ evaluation' = w.evaluation
                        /\ IF w.evaluation.raised # "none"
                           THEN /\ thread' = w.evaluation.raised
                                /\ UNCHANGED <<cursor, alerts>>
                           ELSE /\ alerts' = Append(alerts,
                                        [symbol   |-> symbol,
                                         action   |-> action,
                                         lots     |-> w.evaluation.lots,
                                         incr_var |-> w.evaluation.incr_var])
                                /\ cursor' = cursor + 1
                                /\ UNCHANGED thread
    /\ UNCHANGED <<positions_get, symbol_info, run_log, optimized>>
    /\ UNCHANGED <<signalVars, utilVars, coreVars, crashVars,
                   serviceVars>>

\* the loop is over
LiveRunReturn ==
    /\ thread = "running"
    /\ cursor > Len(g_symbols_forex)
    /\ thread' = "returned"
    /\ UNCHANGED <<positions_get, symbol_info, portfolio, cursor, alerts,
                   evaluation, run_log, optimized>>
    /\ UNCHANGED <<signalVars, utilVars, coreVars, crashVars,
                   serviceVars>>

NextLive ==
    \/ CallLiveRun
    \/ LiveRunSymbol
    \/ LiveRunReturn

(***************************************************************************)
(* Part III: position sizing (controller/order.py).                        *)
(***************************************************************************)
\* largest stop distance, in pips, handed to get_position_size
MaxStopPips == 40
\* defaults of get_position_size
max_risk_per_trade == 5
risk_base_amount == 300

\* symbol_info.trade_tick_value
TickValues == {1, 2, 3}
StopPips == (-1)..MaxStopPips

\* round(x, 0) of num/den, den > 0: to the nearest integer, a tie to the
\* even one
RoundHalfEven(num, den) ==
    LET q == Abs(num) \div den
        r == Abs(num) % den
        m == IF 2 * r > den \/ (2 * r = den /\ q % 2 = 1) THEN q + 1 ELSE q
    IN  IF num < 0 THEN -m ELSE m

NoSizing ==
    [called |-> FALSE, trade_tick_value |-> 0, stop_pips |-> 0,
     raised |-> "none", lots |-> 0, num |-> 0, den |-> 1]

\* get_position_size: the call and its result, lots in hundredths; num/den
\* is the raw quotient money_risk / pip_risk_value in hundredths of a lot,
\* den > 0
get_position_size(trade_tick_value, stop_pips) ==
    LET pip_value_per_lot == 10 * trade_tick_value
        money_risk        == risk_base_amount * max_risk_per_trade
        pip_risk_value    == stop_pips * pip_value_per_lot
        num == IF pip_risk_value < 0 THEN -money_risk ELSE money_risk
        den == Abs(pip_risk_value)
    IN  IF pip_risk_value = 0
        THEN [NoSizing EXCEPT !.called = TRUE,
                              !.trade_tick_value = trade_tick_value,
                              !.stop_pips = stop_pips,
                              !.raised = "ZeroDivisionError"]
        ELSE [called |-> TRUE, trade_tick_value |-> trade_tick_value,
              stop_pips |-> stop_pips, raised |-> "none",
              lots |-> LET rounded == RoundHalfEven(num, den)
                       IN  IF rounded < 0 THEN 0 ELSE rounded,
              num |-> num, den |-> den]

GetPositionSize ==
    /\ \E trade_tick_value \in TickValues, stop_pips \in StopPips :
          sizing' = get_position_size(trade_tick_value, stop_pips)
    /\ UNCHANGED <<signalVars, riskVars, reference, coreVars, crashVars,
                   serviceVars>>

NextSizing == GetPositionSize

(***************************************************************************)
(* Part IV: the bars behind the volatility and the correlation of a run.   *)
(* Rows of a history of n bars are numbered 1..n; log_returns is defined   *)
(* from row 2 on.                                                          *)
(***************************************************************************)
\* longest D1 history handed to a run
MaxHistoryBars == 14
\* volatility_period and correlation_period handed to run
RollingPeriods == 2..4

\* the rows a rolling(window) statistic at 'row' is computed from
RollingWindow(row, window) == (row - window + 1)..row

\* .iloc[k] and .index[k] for a negative k, on n rows
NegativeIndex(n, k) == n + k + 1

\* calculate_volatility: the rows of log_returns behind
\* df['log_returns'].shift(1).rolling(window).std().iloc[-2]
VolatilityWindow(n, volatility_period) ==
    {row - 1 : row \in RollingWindow(NegativeIndex(n, -2), volatility_period)}

\* calculate_correlations: the rows of log_returns behind
\* combined_returns.rolling(window).corr() at combined_returns.index[-2]
CorrelationWindow(n, correlation_period) ==
    RollingWindow(NegativeIndex(n, -2), correlation_period)

\* a rolling statistic is NaN unless every row of its window has a return
IsNaNWindow(rows) == \E row \in rows : row < 2

NoReference ==
    [bars |-> 0, volatility_period |-> 0, correlation_period |-> 0,
     volatility_rows |-> {}, correlation_rows |-> {}]

\* lines 184-187 of run, on a history of n bars
CalculateVolatilityAndCorrelations ==
    /\ \E n \in 2..MaxHistoryBars,
          volatility_period, correlation_period \in RollingPeriods :
          reference' =
              [bars |-> n,
               volatility_period |-> volatility_period,
               correlation_period |-> correlation_period,
               volatility_rows |-> VolatilityWindow(n, volatility_period),
               correlation_rows |-> CorrelationWindow(n, correlation_period)]
    /\ UNCHANGED <<signalVars, riskVars, sizing, coreVars, crashVars,
                   serviceVars>>

NextReference == CalculateVolatilityAndCorrelations

(***************************************************************************)
(* Part V: the task framework of app/core/async_framework.py on the        *)
(* asyncio event loop: one queue of ready callbacks served first in, first *)
(* out; a step runs one coroutine up to its next suspension.               *)
(***************************************************************************)
\* most suspensions of one execute()
MaxAwaits == 1
\* largest max_concurrent_tasks of a manager
MaxConcurrentTasks == 2
\* the tasks of test_task_priority, and a PeriodicTask
TaskNames == {"task1", "task2", "task3"}
PeriodicNames == {"periodic"}
\* the tasks a manager whose tasks are cancelled is given
CancelNames == {"task1", "task2", "periodic"}

\* AsyncTask.__init__: priority as test_task_priority gives it
priority(name) ==
    CASE name = "task1" -> 1
      [] name = "task2" -> 2
      [] name = "task3" -> 3
      [] OTHER -> 0

\* AsyncTask.__init__ and PeriodicTask.__init__.  pc is the position of the
\* asyncio task of _run_task: "new" (no _task yet), "created" (first step
\* scheduled), "acquiring" and "woken" (in the semaphore's waiters),
\* "awaiting" (suspended in execute), "func" and "sleep" (suspended in
\* PeriodicTask.execute), "finished" and "cancelled" (done).  must_cancel
\* and cancelling are the asyncio task's pending and counted cancel requests;
\* waited tells that the task was queued for the slot.
AsyncTask(name) ==
    [status |-> "PENDING", result |-> "None", pc |-> "new",
     must_cancel |-> FALSE, cancelling |-> FALSE, awaits |-> 0,
     waited |-> FALSE, stop_event |-> FALSE]

\* TaskManager.__init__
TaskManager(max_concurrent_tasks) ==
    [max_concurrent_tasks |-> max_concurrent_tasks,
     tasks |-> <<>>,
     value |-> max_concurrent_tasks,
     waiters |-> <<>>]

\* asyncio.Task.done()
Done(t) == t.pc \in {"finished", "cancelled"}

\* the names of a sequence of names or of waiters
NamesOf(seq) == {seq[i] : i \in 1..Len(seq)}

\* Semaphore.locked(): no free slot, or somebody not cancelled is queued
locked(m) ==
    \/ m.value = 0
    \/ \E i \in 1..Len(m.waiters) : m.waiters[i].state # "cancelled"

PendingWaiters(m) ==
    {i \in 1..Len(m.waiters) : m.waiters[i].state = "pending"}

\* Semaphore._wake_up_next(): the first waiter that is not done takes the
\* slot and its task is scheduled
wake_up_next(k) ==
    IF PendingWaiters(k.manager) = {}
    THEN k
    ELSE LET i == CHOOSE i \in PendingWaiters(k.manager) :
                     \A j \in PendingWaiters(k.manager) : i <= j
         IN  [k EXCEPT !.manager.value = @ - 1,
                       !.manager.waiters[i].state = "woken",
                       !.task[k.manager.waiters[i].name].pc = "woken",
                       !.ready = Append(@, k.manager.waiters[i].name)]

\* the end of Semaphore.acquire(): wake up as many as are allowed
RECURSIVE wake_while_free(_)
wake_while_free(k) ==
    IF k.manager.value > 0 /\ PendingWaiters(k.manager) # {}
    THEN wake_while_free(wake_up_next(k))
    ELSE k

\* a release that hands the slot back and wakes nobody
release_without_wake_up(k) ==
    [k EXCEPT !.manager.value = @ + 1]

\* Semaphore.release(), the exit of 'async with self._semaphore'
release(k) ==
    wake_up_next([k EXCEPT !.manager.value = @ + 1])

\* 'except BaseException': CancelledError is caught too
except_BaseException(e) == e \in {"Exception", "CancelledError"}

\* 'except Exception' of AsyncTask.run and PeriodicTask.execute
except_Exception(e) == e = "Exception"

\* the waiter of a task leaves the queue (finally: self._waiters.remove(fut))
RemoveWaiter(k, name) ==
    [k EXCEPT !.manager.waiters =
        SelectSeq(@, LAMBDA w : w.name # name)]

\* AsyncTask.run after execute returned
Completed(k, name) ==
    release([k EXCEPT !.task[name].status = "COMPLETED",
                      !.task[name].result = "COMPLETED",
                      !.task[name].pc = "finished"])

\* AsyncTask.run after execute raised e: recorded when the except clause
\* catches it, otherwise it leaves run and _run_task
Raised(k, name, e) ==
    IF except_Exception(e)
    THEN release([k EXCEPT !.task[name].status = "FAILED",
                           !.task[name].result = "FAILED",
                           !.task[name].pc = "finished"])
    ELSE release([k EXCEPT !.task[name].pc = "cancelled"])

\* execute of a plain task from where it stands: it suspends once more,
\* returns or raises
Execute(k, name, choice) ==
    IF choice = "suspend" /\ k.task[name].awaits < MaxAwaits
    THEN [k EXCEPT !.task[name].pc = "awaiting",
                   !.task[name].awaits = @ + 1]
    ELSE IF choice = "raise"
    THEN Raised(k, name, "Exception")
    ELSE Completed(k, name)

\* the body of PeriodicTask.execute from 'await self.func()': func suspends,
\* or ends (an exception it raises is logged) and the task sleeps
PeriodicFunc(k, name, choice) ==
    IF choice = "suspend"
    THEN [k EXCEPT !.task[name].pc = "func"]
    ELSE [k EXCEPT !.task[name].pc = "sleep"]

\* PeriodicTask.execute from the test of the loop
PeriodicExecute(k, name, choice) ==
    IF k.task[name].stop_event
    THEN Completed(k, name)
    ELSE PeriodicFunc(k, name, choice)

\* AsyncTask.run from its first line, the slot taken
Run_(k, name, choice) ==
    LET running == [k EXCEPT !.task[name].status = "RUNNING"]
    IN  IF name \in PeriodicNames
        THEN PeriodicExecute(running, name, choice)
        ELSE Execute(running, name, choice)

\* one step of a task in which no cancellation is pending
Step(k, name, choice) ==
    LET pc == k.task[name].pc
    IN  CASE pc = "created" ->
                IF locked(k.manager)
                THEN [k EXCEPT !.manager.waiters =
                                   Append(@, [name |-> name, state |-> "pending"]),
                               !.task[name].pc = "acquiring",
                               !.task[name].waited = TRUE]
                ELSE Run_([k EXCEPT !.manager.value = @ - 1], name, choice)
          [] pc = "woken" ->
                Run_(wake_while_free(RemoveWaiter(k, name)), name, choice)
          [] pc = "awaiting" -> Execute(k, name, choice)
          [] pc = "func" -> PeriodicFunc(k, name, choice)
          [] pc = "sleep" -> PeriodicExecute(k, name, choice)
          [] OTHER -> k

\* one step of a task in which CancelledError is thrown
Throw(k, name) ==
    LET pc      == k.task[name].pc
        cleared == [k EXCEPT !.task[name].must_cancel = FALSE]
    IN  CASE pc = "created" ->
                [cleared EXCEPT !.task[name].pc = "cancelled"]
          [] pc = "acquiring" ->
                wake_while_free(
                    [RemoveWaiter(cleared, name) EXCEPT
                        !.task[name].pc = "cancelled"])
          [] pc = "woken" ->
                wake_while_free(
                    [RemoveWaiter(cleared, name) EXCEPT
                        !.manager.value = @ + 1,
                        !.task[name].pc = "cancelled"])
          [] pc = "func" /\ except_Exception("CancelledError") ->
                [cleared EXCEPT !.task[name].pc = "sleep"]
          [] pc \in {"awaiting", "func", "sleep"} ->
                Raised(cleared, name, "CancelledError")
          [] OTHER -> cleared

\* AsyncTask.cancel
cancel(k, name) ==
    LET t == k.task[name]
    IN  IF t.pc = "new" \/ Done(t)
        THEN k
        ELSE [k EXCEPT
                !.task[name].status = "CANCELLED",
                !.task[name].must_cancel = TRUE,
                !.task[name].cancelling = TRUE,
                !.manager.waiters =
                    [i \in 1..Len(@) |->
                        IF @[i].name = name /\ @[i].state = "pending"
                        THEN [@[i] EXCEPT !.state = "cancelled"]
                        ELSE @[i]],
                !.ready = IF name \in NamesOf(@) THEN @ ELSE Append(@, name)]

\* the manager, its tasks and the loop's queue as one value
Kernel == [manager |-> manager, task |-> task, ready |-> ready]

SetKernel(k) ==
    /\ manager' = k.manager
    /\ task' = k.task
    /\ ready' = k.ready

NoResults == [state |-> "idle", snapshot |-> {}, results |-> <<>>]

\* TaskManager.add_task with a name not yet taken
AddTaskOf(names) ==
    /\ caller.state # "gathering"
    /\ \E name \in names :
          /\ name \notin NamesOf(manager.tasks)
          /\ manager' = [manager EXCEPT !.tasks = Append(@, name)]
          /\ task' = [task EXCEPT ![name].pc = "created"]
          /\ ready' = Append(ready, name)
    /\ caller' = NoResults
    /\ UNCHANGED <<signalVars, riskVars, utilVars, crashVars,
                   serviceVars>>

AddTask == AddTaskOf(TaskNames)

AddTaskOrPeriodicTask == AddTaskOf(CancelNames)

\* the event loop runs the callback at the head of its queue
LoopStep ==
    /\ ready # <<>>
    /\ \E choice \in {"suspend", "return", "raise"} :
       \E k \in {[Kernel EXCEPT !.ready = Tail(ready)]} :
          SetKernel(IF task[Head(ready)].must_cancel
                    THEN Throw(k, Head(ready))
                    ELSE Step(k, Head(ready), choice))
    /\ UNCHANGED caller
    /\ UNCHANGED <<signalVars, riskVars, utilVars, crashVars,
                   serviceVars>>

\* what a suspended execute waits for is there: its task is scheduled
TimerFires ==
    /\ \E name \in NamesOf(manager.tasks) :
          /\ task[name].pc \in {"awaiting", "func", "sleep"}
          /\ name \notin NamesOf(ready)
          /\ ready' = Append(ready, name)
    /\ UNCHANGED <<manager, task, caller>>
    /\ UNCHANGED <<signalVars, riskVars, utilVars, crashVars,
                   serviceVars>>

\* TaskManager.wait_for_all(timeout=None) up to its await
WaitForAll ==
    /\ caller.state = "idle"
    /\ caller' =
          IF manager.tasks = <<>>
          THEN [NoResults EXCEPT !.state = "returned"]
          ELSE [NoResults EXCEPT !.state = "gathering",
                                 !.snapshot = NamesOf(manager.tasks)]
    /\ UNCHANGED <<manager, task, ready>>
    /\ UNCHANGED <<signalVars, riskVars, utilVars, crashVars,
                   serviceVars>>

\* gather is done: a cancelled task raises CancelledError in the caller,
\* otherwise wait_for_all returns task.result of every task of the manager
GatherReturns ==
    /\ caller.state = "gathering"
    /\ IF \E name \in caller.snapshot : task[name].pc = "cancelled"
       THEN caller' = [caller EXCEPT !.state = "CancelledError"]
       ELSE /\ \A name \in caller.snapshot : task[name].pc = "finished"
            /\ caller' =
                 [caller EXCEPT
                    !.state = "returned",
                    !.results = [i \in 1..Len(manager.tasks) |->
                                    <<manager.tasks[i],
                                      task[manager.tasks[i]].result>>]]
    /\ UNCHANGED <<manager, task, ready>>
    /\ UNCHANGED <<signalVars, riskVars, utilVars, crashVars,
                   serviceVars>>

\* TaskManager.cancel_task
CancelTask ==
    /\ \E name \in NamesOf(manager.tasks) :
          SetKernel(cancel(Kernel, name))
    /\ UNCHANGED caller
    /\ UNCHANGED <<signalVars, riskVars, utilVars, crashVars,
                   serviceVars>>

\* PeriodicTask.stop
StopPeriodicTask ==
    /\ \E name \in PeriodicNames :
          SetKernel(cancel([Kernel EXCEPT !.task[name].stop_event = TRUE],
                           name))
    /\ UNCHANGED caller
    /\ UNCHANGED <<signalVars, riskVars, utilVars, crashVars,
                   serviceVars>>

NextTasks ==
    \/ AddTask
    \/ LoopStep
    \/ TimerFires
    \/ WaitForAll
    \/ GatherReturns

NextCancel ==
    \/ AddTaskOrPeriodicTask
    \/ LoopStep
    \/ TimerFires
    \/ WaitForAll
    \/ GatherReturns
    \/ CancelTask
    \/ StopPeriodicTask

InitTasks(limits) ==
    /\ \E max_concurrent_tasks \in limits :
          manager = TaskManager(max_concurrent_tasks)
    /\ task = [name \in TaskNames \cup PeriodicNames |-> AsyncTask(name)]
    /\ ready = <<>>
    /\ caller = NoResults

(***************************************************************************)
(* Part VI: crash recovery (app/core/crash_recovery.py) and the start of   *)
(* the bot (app/core/bot.py).  Times are whole hours.                      *)
(***************************************************************************)
\* latest hour of the clock when BotState is driven directly
MaxClock == 4
\* most crashes recorded
MaxCrashLog == 3
\* defaults of BotState.should_restart
max_crashes == 3
crash_window_hours == 24
\* arguments handed to should_restart when BotState is driven directly
MaxCrashesArgs == 1..3
CrashWindowArgs == 1..2

\* BotState._load_state without a state file; last_crash_time is <<>> for
\* None and <<hour>> otherwise
BotState == [crash_count |-> 0, last_crash_time |-> <<>>]

\* BotState.record_crash
record_crash(self, now) ==
    [self EXCEPT !.crash_count = @ + 1, !.last_crash_time = <<now>>]

\* BotState.should_restart: the state it leaves and what it returns
should_restart(self, now, maxCrashes, windowHours) ==
    IF self.crash_count = 0
    THEN [state |-> self, returned |-> TRUE]
    ELSE IF self.last_crash_time = <<>>
    THEN [state |-> self, returned |-> TRUE]
    ELSE IF now - self.last_crash_time[1] > windowHours
    THEN [state |-> [self EXCEPT !.crash_count = 0], returned |-> TRUE]
    ELSE [state |-> self, returned |-> self.crash_count < maxCrashes]

\* log: the hours of the crashes recorded before the call; after: the state
\* the call left
NoRestart ==
    [called |-> FALSE, max_crashes |-> 0, crash_window_hours |-> 0,
     now |-> 0, log |-> <<>>, after |-> BotState, returned |-> FALSE]

\* where one exception ends a start: inside _initialize_mt5, elsewhere in
\* initialize, or in the trading loop
FailurePoints == {"_initialize_mt5", "initialize", "_run_live_trading"}

\* CrashRecovery.handle_crash
handle_crash(self, now) == record_crash(self, now)

\* the handlers an exception raised at 'point' passes on its way out of
\* TradingBot.start, each calling handle_crash: _initialize_mt5 (which then
\* returns False, so that initialize raises RuntimeError), initialize or
\* _run_live_trading, and start itself
Handlers(point) ==
    CASE point = "_initialize_mt5" -> <<"_initialize_mt5", "initialize", "start">>
      [] point = "initialize" -> <<"initialize", "start">>
      [] point = "_run_live_trading" -> <<"_run_live_trading", "start">>
      [] OTHER -> <<>>

RECURSIVE HandleCrashes(_, _, _)
HandleCrashes(self, now, handlers) ==
    IF handlers = <<>>
    THEN self
    ELSE HandleCrashes(handle_crash(self, now), now, Tail(handlers))

NoStart ==
    [outcome |-> "none", failed_at |-> "none", checked |-> BotState,
     failures |-> 0]

\* time passes
TickOf(hours, limit) ==
    /\ clock + hours <= limit
    /\ clock' = clock + hours
    /\ UNCHANGED <<bot_state, crash_log, restart, bot>>
    /\ UNCHANGED <<signalVars, riskVars, utilVars, coreVars, serviceVars>>

Tick == TickOf(1, MaxClock)

HalfWindow == TickOf(crash_window_hours \div 2, MaxClock * crash_window_hours)

\* BotState.record_crash
RecordCrash ==
    /\ Len(crash_log) < MaxCrashLog
    /\ bot_state' = record_crash(bot_state, clock)
    /\ crash_log' = Append(crash_log, clock)
    /\ UNCHANGED <<clock, restart, bot>>
    /\ UNCHANGED <<signalVars, riskVars, utilVars, coreVars, serviceVars>>

\* BotState.should_restart(max_crashes, crash_window_hours)
ShouldRestart ==
    /\ \E maxCrashes \in MaxCrashesArgs, windowHours \in CrashWindowArgs :
       \E got \in {should_restart(bot_state, clock, maxCrashes, windowHours)} :
          /\ bot_state' = got.state
          /\ restart' = [called |-> TRUE, max_crashes |-> maxCrashes,
                         crash_window_hours |-> windowHours, now |-> clock,
                         log |-> crash_log, after |-> got.state,
                         returned |-> got.returned]
    /\ UNCHANGED <<clock, crash_log, bot>>
    /\ UNCHANGED <<signalVars, riskVars, utilVars, coreVars, serviceVars>>

\* TradingBot.start: refused, or run to its end, or ended by one exception
Start ==
    /\ bot.failures < MaxCrashLog
    /\ \E got \in {should_restart(bot_state, clock, max_crashes,
                                  crash_window_hours)} :
          IF ~got.returned
          THEN /\ bot_state' = got.state
               /\ bot' = [bot EXCEPT !.outcome = "refused",
                                     !.failed_at = "none",
                                     !.checked = got.state]
               /\ UNCHANGED crash_log
          ELSE \E point \in FailurePoints \cup {"none"} :
                  /\ bot_state' = HandleCrashes(got.state, clock,
                                                Handlers(point))
                  /\ crash_log' = crash_log \o [i \in 1..Len(Handlers(point))
                                                    |-> clock]
                  /\ bot' = [outcome |-> IF point = "none" THEN "returned"
                                         ELSE "raised",
                             failed_at |-> point,
                             checked |-> got.state,
                             failures |-> IF point = "none" THEN bot.failures
                                          ELSE bot.failures + 1]
    /\ UNCHANGED <<clock, restart>>
    /\ UNCHANGED <<signalVars, riskVars, utilVars, coreVars, serviceVars>>

NextCrash ==
    \/ Tick
    \/ RecordCrash
    \/ ShouldRestart

NextBot ==
    \/ HalfWindow
    \/ Start

InitCrash(start) ==
    /\ clock = start
    /\ bot_state = BotState
    /\ crash_log = <<>>
    /\ restart = NoRestart
    /\ bot = NoStart

(***************************************************************************)
(* Part VII: the retry decorator of app/core/utils.py.                     *)
(***************************************************************************)
\* largest max_attempts handed to retry_on_exception
MaxAttempts == 3
\* delay and backoff handed to retry_on_exception
Delays == {1, 2}
Backoffs == {1, 2}
\* the exceptions tuple of the decorator, and an exception outside it
exceptions == {"ValueError", "ConnectionError"}
Unlisted == {"KeyboardInterrupt"}

\* history: what each call of the wrapped coroutine did, in order
NoRetry ==
    [state |-> "none", max_attempts |-> 0, attempt |-> 0, current_delay |-> 0,
     backoff |-> 0, history |-> <<>>, last_exception |-> <<>>,
     outcome |-> <<>>]

\* the test that another attempt follows, with the last attempt counted in
retries_left_inclusive(attempt, maxAttempts) == attempt < maxAttempts

\* 'if attempt < max_attempts - 1'
retries_left(attempt, maxAttempts) == attempt < maxAttempts - 1

\* the wrapper is called: the loop is entered with attempt = 0
CallWrapper ==
    /\ retry.state = "none"
    /\ \E maxAttempts \in 1..MaxAttempts, delay \in Delays, backoff \in Backoffs :
          retry' = [NoRetry EXCEPT !.state = "calling",
                                   !.max_attempts = maxAttempts,
                                   !.current_delay = delay,
                                   !.backoff = backoff]
    /\ UNCHANGED <<monitor, loops, stops>>
    /\ UNCHANGED <<signalVars, riskVars, utilVars, coreVars, crashVars>>

\* one pass of the loop up to its return, raise or sleep; call is what the
\* wrapped coroutine does this time: it returns a value or raises
Attempt ==
    /\ retry.state = "calling"
    /\ \E kind \in {"value"} \cup exceptions \cup Unlisted :
       \E call \in {[kind |-> kind, id |-> retry.attempt + 1]} :
          retry' =
            IF kind = "value"
            THEN [retry EXCEPT !.state = "returned",
                               !.history = Append(@, call),
                               !.outcome = <<call>>]
            ELSE IF kind \notin exceptions
            THEN [retry EXCEPT !.state = "raised",
                               !.history = Append(@, call),
                               !.outcome = <<call>>]
            ELSE IF retries_left(retry.attempt, retry.max_attempts)
            THEN [retry EXCEPT !.state = "sleeping",
                               !.history = Append(@, call),
                               !.last_exception = <<call>>]
            ELSE [retry EXCEPT !.state = "raised",
                               !.history = Append(@, call),
                               !.last_exception = <<call>>,
                               !.outcome = <<call>>]
    /\ UNCHANGED <<monitor, loops, stops>>
    /\ UNCHANGED <<signalVars, riskVars, utilVars, coreVars, crashVars>>

\* asyncio.sleep(current_delay) is over: the delay grows and the loop goes
\* on, or has run out and the wrapper returns None
Wake ==
    /\ retry.state = "sleeping"
    /\ retry' =
         IF retry.attempt + 1 < retry.max_attempts
         THEN [retry EXCEPT !.state = "calling",
                            !.attempt = @ + 1,
                            !.current_delay = @ * retry.backoff]
         ELSE [retry EXCEPT !.state = "returned",
                            !.current_delay = @ * retry.backoff,
                            !.outcome = <<[kind |-> "None", id |-> 0]>>]
    /\ UNCHANGED <<monitor, loops, stops>>
    /\ UNCHANGED <<signalVars, riskVars, utilVars, coreVars, crashVars>>

NextRetry ==
    \/ CallWrapper
    \/ Attempt
    \/ Wake

InitRetry(start) ==
    retry = start

(***************************************************************************)
(* Part VIII: the system monitor (app/core/system_monitor.py).  start does *)
(* not suspend; stop suspends at 'await self._monitor_task', so calls of   *)
(* stop by several coroutines overlap with each other and with start.      *)
(***************************************************************************)
\* most monitor loop tasks created
MaxMonitorTasks == 4
\* most calls of stop suspended at the same time
MaxStoppers == 2

\* SystemMonitor.__init__: _monitor_task is <<>> for None and <<id>> for a
\* task
SystemMonitor == [_monitor_task |-> <<>>, _stop_event |-> FALSE]

\* the loop tasks that exist: created and not yet ended
Running == {id \in 1..MaxMonitorTasks : loops[id] = "running"}

\* what a returning stop leaves behind; found tells that it found a task
StopReturned(found, self) ==
    [returned |-> TRUE, found |-> found,
     _monitor_task |-> self._monitor_task, _stop_event |-> self._stop_event]

NoStops ==
    [awaiting |-> <<>>, resumed |-> <<>>,
     last |-> [StopReturned(FALSE, SystemMonitor) EXCEPT !.returned = FALSE]]

\* SystemMonitor.start
StartMonitor ==
    /\ IF monitor._monitor_task # <<>>
       THEN UNCHANGED <<monitor, loops>>
       ELSE \E id \in 1..MaxMonitorTasks :
               /\ loops[id] = "none"
               /\ \A other \in 1..MaxMonitorTasks :
                     loops[other] = "none" => id <= other
               /\ loops' = [loops EXCEPT ![id] = "running"]
               /\ monitor' = [_monitor_task |-> <<id>>, _stop_event |-> FALSE]
    /\ UNCHANGED <<stops, retry>>
    /\ UNCHANGED <<signalVars, riskVars, utilVars, coreVars, crashVars>>

\* SystemMonitor.stop up to its await; awaiting a task that has ended does
\* not suspend
StopMonitor ==
    /\ Len(stops.awaiting) + Len(stops.resumed) < MaxStoppers
    /\ IF monitor._monitor_task = <<>>
       THEN /\ stops' = [stops EXCEPT !.last = StopReturned(FALSE, monitor)]
            /\ UNCHANGED monitor
       ELSE IF loops[monitor._monitor_task[1]] = "done"
       THEN /\ monitor' = [_monitor_task |-> <<>>, _stop_event |-> TRUE]
            /\ stops' = [stops EXCEPT !.last = StopReturned(TRUE, monitor')]
       ELSE /\ monitor' = [monitor EXCEPT !._stop_event = TRUE]
            /\ stops' = [stops EXCEPT
                            !.awaiting = Append(@, monitor._monitor_task[1])]
    /\ UNCHANGED <<loops, retry>>
    /\ UNCHANGED <<signalVars, riskVars, utilVars, coreVars, crashVars>>

\* _monitor_loop tests the stop event, finds it set and ends; the calls of
\* stop that await this task are scheduled in the order they began to wait
MonitorLoopEnds ==
    /\ monitor._stop_event
    /\ \E id \in Running :
          /\ loops' = [loops EXCEPT ![id] = "done"]
          /\ stops' = [stops EXCEPT
                          !.awaiting = SelectSeq(@, LAMBDA t : t # id),
                          !.resumed = @ \o SelectSeq(stops.awaiting,
                                                     LAMBDA t : t = id)]
    /\ UNCHANGED <<monitor, retry>>
    /\ UNCHANGED <<signalVars, riskVars, utilVars, coreVars, crashVars>>

\* SystemMonitor.stop after its await
StopResumes ==
    /\ stops.resumed # <<>>
    /\ monitor' = [monitor EXCEPT !._monitor_task = <<>>]
    /\ stops' = [stops EXCEPT !.resumed = Tail(@),
                              !.last = StopReturned(TRUE, monitor')]
    /\ UNCHANGED <<loops, retry>>
    /\ UNCHANGED <<signalVars, riskVars, utilVars, coreVars, crashVars>>

NextMonitor ==
    \/ StartMonitor
    \/ StopMonitor
    \/ MonitorLoopEnds
    \/ StopResumes

InitMonitor(start) ==
    /\ monitor = start
    /\ loops = [id \in 1..MaxMonitorTasks |-> "none"]
    /\ stops = NoStops

(***************************************************************************)
(* Specifications.                                                         *)
(***************************************************************************)
InitRisk(infos, results) ==
    /\ symbol_info \in infos
    /\ positions_get \in results
    /\ portfolio = PortfolioRiskMan
    /\ cursor = 1
    /\ alerts = <<>>
    /\ evaluation = NoEvaluation
    /\ thread = "idle"
    /\ run_log = <<>>
    /\ optimized = NoOptimized
    /\ sizing = NoSizing
    /\ reference = NoReference

\* every symbol known to the terminal
AllSymbolInfo == {[symbol \in Symbols |-> TRUE]}

\* no open position at the broker
NoPositions == {[none |-> FALSE, list |-> <<>>]}

\* the signal engine over the ranging feed
Spec ==
    /\ InitSignal("ranging")
    /\ InitRisk(AllSymbolInfo, NoPositions)
    /\ InitTasks({1})
    /\ InitCrash(0)
    /\ InitRetry(NoRetry)
    /\ InitMonitor(SystemMonitor)
    /\ [][NextSignal]_vars

\* the signal engine over the zigzag feed
SpecZigZag ==
    /\ InitSignal("zigzag")
    /\ InitRisk(AllSymbolInfo, NoPositions)
    /\ InitTasks({1})
    /\ InitCrash(0)
    /\ InitRetry(NoRetry)
    /\ InitMonitor(SystemMonitor)
    /\ [][NextSignal]_vars

\* the signal engine over the swing feed
SpecSwing ==
    /\ InitSignal("swing")
    /\ InitRisk(AllSymbolInfo, NoPositions)
    /\ InitTasks({1})
    /\ InitCrash(0)
    /\ InitRetry(NoRetry)
    /\ InitMonitor(SystemMonitor)
    /\ [][NextSignal]_vars

\* the position book
SpecBook ==
    /\ InitSignal("none")
    /\ InitRisk([Symbols -> BOOLEAN], NoPositions)
    /\ InitTasks({1})
    /\ InitCrash(0)
    /\ InitRetry(NoRetry)
    /\ InitMonitor(SystemMonitor)
    /\ [][NextBook]_vars

\* position sizing
SpecSizing ==
    /\ InitSignal("none")
    /\ InitRisk(AllSymbolInfo, NoPositions)
    /\ InitTasks({1})
    /\ InitCrash(0)
    /\ InitRetry(NoRetry)
    /\ InitMonitor(SystemMonitor)
    /\ [][NextSizing]_vars

\* the reference bars of a run's statistics
SpecReference ==
    /\ InitSignal("none")
    /\ InitRisk(AllSymbolInfo, NoPositions)
    /\ InitTasks({1})
    /\ InitCrash(0)
    /\ InitRetry(NoRetry)
    /\ InitMonitor(SystemMonitor)
    /\ [][NextReference]_vars

\* a manager given tasks that run to their end
SpecTasks ==
    /\ InitSignal("none")
    /\ InitRisk(AllSymbolInfo, NoPositions)
    /\ InitTasks(1..MaxConcurrentTasks)
    /\ InitCrash(0)
    /\ InitRetry(NoRetry)
    /\ InitMonitor(SystemMonitor)
    /\ [][NextTasks]_vars

\* the same under a loop that keeps serving its queue and timers that fire
SpecTasksFair ==
    /\ SpecTasks
    /\ WF_vars(LoopStep)
    /\ WF_vars(TimerFires)
    /\ WF_vars(GatherReturns)

\* a manager whose tasks are cancelled and stopped
SpecCancel ==
    /\ InitSignal("none")
    /\ InitRisk(AllSymbolInfo, NoPositions)
    /\ InitTasks(1..MaxConcurrentTasks)
    /\ InitCrash(0)
    /\ InitRetry(NoRetry)
    /\ InitMonitor(SystemMonitor)
    /\ [][NextCancel]_vars

\* BotState driven directly
SpecCrash ==
    /\ InitSignal("none")
    /\ InitRisk(AllSymbolInfo, NoPositions)
    /\ InitTasks({1})
    /\ InitCrash(0)
    /\ InitRetry(NoRetry)
    /\ InitMonitor(SystemMonitor)
    /\ [][NextCrash]_vars

\* the bot started again and again
SpecBot ==
    /\ InitSignal("none")
    /\ InitRisk(AllSymbolInfo, NoPositions)
    /\ InitTasks({1})
    /\ InitCrash(0)
    /\ InitRetry(NoRetry)
    /\ InitMonitor(SystemMonitor)
    /\ [][NextBot]_vars

\* a wrapped coroutine called once
SpecRetry ==
    /\ InitSignal("none")
    /\ InitRisk(AllSymbolInfo, NoPositions)
    /\ InitTasks({1})
    /\ InitCrash(0)
    /\ InitRetry(NoRetry)
    /\ InitMonitor(SystemMonitor)
    /\ [][NextRetry]_vars

\* a monitor started and stopped by several coroutines
SpecMonitor ==
    /\ InitSignal("none")
    /\ InitRisk(AllSymbolInfo, NoPositions)
    /\ InitTasks({1})
    /\ InitCrash(0)
    /\ InitRetry(NoRetry)
    /\ InitMonitor(SystemMonitor)
    /\ [][NextMonitor]_vars

\* the live decision cycle
SpecLive ==
    /\ InitSignal("none")
    /\ InitRisk([Symbols -> BOOLEAN], PositionsGetResults)
    /\ InitTasks({1})
    /\ InitCrash(0)
    /\ InitRetry(NoRetry)
    /\ InitMonitor(SystemMonitor)
    /\ [][NextLive]_vars

(***************************************************************************)
(* Properties of Part II.                                                  *)
(***************************************************************************)
\* the reported change of VaR, a percentage, is at most g_risk_threshold
WithinRiskThreshold(change) ==
    /\ change.kind = "number"
    /\ change.num <= g_risk_threshold * change.den

\* C1: every candidate that live_run passes on as an alert has a VaR change
\* within the risk threshold and a lot size within [min_lot, max_lot]
C1_AlertsWithinLimits ==
    \A i \in 1..Len(alerts) :
        /\ WithinRiskThreshold(alerts[i].incr_var)
        /\ g_min_lot_size <= Abs(alerts[i].lots)
        /\ Abs(alerts[i].lots) <= g_max_lot_size

\* the net signed volume the broker holds in a symbol
BrokerNet(symbol) ==
    SumSeq([i \in 1..Len(positions_get.list) |->
                IF positions_get.list[i].symbol = symbol
                THEN vol_lots(positions_get.list[i]) ELSE 0])

\* C2: the book a candidate's proposed VaR is computed over holds the
\* broker's open positions and that one candidate, and nothing left from a
\* candidate evaluated before it
C2_ProposedOverOpenPlusCandidate ==
    evaluation.stage \in {"proposed", "round", "alert"} =>
        \A symbol \in Symbols :
            NetLots(evaluation.book, symbol) =
                BrokerNet(symbol)
                    + (IF symbol = evaluation.symbol THEN evaluation.lots ELSE 0)

\* a second candidate of one call was evaluated after a first one was, with
\* open broker positions in the book
C2_Witness ==
    /\ Len(alerts) = 2
    /\ evaluation.stage = "alert"
    /\ evaluation.symbol = g_symbols_forex[2]
    /\ evaluation.open_positions > 0

\* C3: two calls of run on the same history and the same book return the
\* same VaR
C3_RunDeterministic ==
    (/\ Len(run_log) = 2
     /\ run_log[1].raised = "none"
     /\ run_log[2].raised = "none")
        => run_log[1].returned = run_log[2].returned

\* C4: a what-if evaluation whose book held no net position before the
\* candidate was added reports a VaR change of exactly 100 and divides by
\* nothing
C4_EmptyBookReports100 ==
    (/\ evaluation.stage \in {"round", "alert"}
     /\ \A symbol \in Symbols : NetLots(evaluation.book_before, symbol) = 0)
        => /\ evaluation.incr_var.kind = "number"
           /\ evaluation.incr_var.num = 100 * evaluation.incr_var.den
           /\ ~evaluation.incr_var.divided

(***************************************************************************)
(* Properties of Part I.                                                   *)
(***************************************************************************)
HasSignal == stage \in {"alerts", "pivots", "doubles", "strategy"}
HasPivots == stage \in {"pivots", "doubles", "strategy"} /\ Len(isPivot) = Len(df)

\* the swing state of a column value: 1 UP, -1 DOWN, 0 UNDEFINED
StateOf(v) == IF v = 1 THEN 1 ELSE IF v = -1 THEN -1 ELSE 0

\* C5: the base signal is edge-triggered.  At every bar the signal is BUY
\* exactly when the swing state is UP there and was DOWN one bar before,
\* SELL exactly when it is DOWN there and was UP one bar before, and NONE
\* everywhere else, the bar at which the state first becomes defined
\* included.
C5_EdgeTriggered ==
    HasSignal =>
        \A i \in 1..Len(df) :
            LET now    == StateOf(swingline[i])
                before == IF i = 1 THEN 0 ELSE StateOf(swingline[i - 1])
            IN  /\ signal[i] \in {-1, 0, 1}
                /\ (signal[i] = 1) <=> (now = 1 /\ before = -1)
                /\ (signal[i] = -1) <=> (now = -1 /\ before = 1)
                /\ (now # 0 /\ before = 0) => signal[i] = 0

\* a series with a BUY edge, a SELL edge and a first defined bar
C5_Witness ==
    /\ HasSignal
    /\ \E i \in 1..Len(df) : signal[i] = 1
    /\ \E i \in 1..Len(df) : signal[i] = -1
    /\ \E i \in 2..Len(df) :
           StateOf(swingline[i]) # 0 /\ StateOf(swingline[i - 1]) = 0

\* C6: calculate_willpct_swing_lines, on the previous bar's oscillator
\* value w and the value pw one bar earlier, sets the state to UP exactly
\* when w > -20 and pw <= -20, to DOWN exactly when w < -80 and pw >= -80
\* (pw equal to the threshold counts as a crossing), and holds the state
\* otherwise.
C6_CrossingAtOrBeyond ==
    (stage # "raw" /\ variant = "willpct") =>
        \A i \in 1..Len(df) :
            LET w    == calculate_williams_percent(df, i - 1, williamsR)
                pw   == calculate_williams_percent(df, i - 2, williamsR)
                up   == /\ WprAbove(w, UpperThreshold)
                        /\ (WprBelow(pw, UpperThreshold)
                            \/ WprEquals(pw, UpperThreshold))
                down == /\ WprBelow(w, LowerThreshold)
                        /\ (WprAbove(pw, LowerThreshold)
                            \/ WprEquals(pw, LowerThreshold))
            IN  /\ up => swingline[i] = 1
                /\ down => swingline[i] = -1
                /\ (~up /\ ~down) => swingline[i] = Shift(swingline, i, 1)

\* C7: at a last bar with a base signal, the strategy returns Buy exactly
\* when the signal is BUY, two pivot highs and two pivot lows exist, and
\* H1 < H0 and (L1 > L0 or ATR >= |L1 - L0|); Sell exactly when the signal
\* is SELL, the pivots exist, and L1 > L0 and (H1 < H0 or ATR >= |H1 - H0|);
\* Neutral in every other case.  H1, L1 are the most recent pivots.
C7_ValidatedSignal ==
    (stage = "strategy" /\ signal[Len(df)] # 0) =>
        LET n  == Len(df)
            HR == {i \in 1..n : isPivot[i] = 1}
            LR == {i \in 1..n : isPivot[i] = -1}
            enough == Cardinality(HR) >= 2 /\ Cardinality(LR) >= 2
            H1 == df[Max(HR)].High
            H0 == df[Max(HR \ {Max(HR)})].High
            L1 == df[Max(LR)].Low
            L0 == df[Max(LR \ {Max(LR)})].Low
            A  == calculate_atr(df, n, AtrPeriod)
            buy  == /\ signal[n] = 1 /\ enough
                    /\ H1 < H0
                    /\ (L1 > L0 \/ A.sum >= Abs(L1 - L0) * A.cnt)
            sell == /\ signal[n] = -1 /\ enough
                    /\ L1 > L0
                    /\ (H1 < H0 \/ A.sum >= Abs(H1 - H0) * A.cnt)
        IN  /\ (strategy_signal = "Buy") <=> buy
            /\ (strategy_signal = "Sell") <=> sell
            /\ (~buy /\ ~sell) => strategy_signal = "Neutral"

\* a Buy that is valid through the ATR tolerance only (L1 <= L0)
C7_Witness ==
    /\ stage = "strategy"
    /\ strategy_signal = "Buy"
    /\ LET LR == {i \in 1..Len(df) : isPivot[i] = -1}
       IN  df[Max(LR)].Low <= df[Max(LR \ {Max(LR)})].Low

\* C8: at a bar where the double-bottom and the double-top condition are
\* both true of the last three pivot highs and lows, the pattern flag is
\* NONE (0).
C8_AmbiguityIsNone ==
    stage = "doubles" =>
        \A i \in 1..Len(df) :
            LET idxhighs == TailN(PivotRows(isPivot, 1, i), 3)
                idxlows  == TailN(PivotRows(isPivot, -1, i), 3)
                highs == [k \in 1..Len(idxhighs) |-> df[idxhighs[k]].High]
                lows  == [k \in 1..Len(idxlows) |-> df[idxlows[k]].Low]
            IN  (/\ signal[i] # 0
                 /\ Len(highs) > 2 /\ Len(lows) > 2
                 /\ double_bottom(highs, lows)
                 /\ double_top(highs, lows)) => position[i] = 0

\* the maximal contiguous runs <<first, last>> of UP or of DOWN swing state
SwingRuns ==
    {r \in (1..Len(df)) \X (1..Len(df)) :
        /\ r[1] <= r[2]
        /\ StateOf(swingline[r[1]]) # 0
        /\ \A k \in r[1]..r[2] : swingline[k] = swingline[r[1]]
        /\ (r[1] = 1 \/ swingline[r[1] - 1] # swingline[r[1]])
        /\ (r[2] = Len(df) \/ swingline[r[2] + 1] # swingline[r[2]])}

\* C9: every maximal run of UP or DOWN swing state, the open last one
\* included, carries exactly one pivot: a pivot high at a bar whose High is
\* the run's maximum High (UP), a pivot low at a bar whose Low is the run's
\* minimum Low (DOWN); a bar of undefined state is never marked.
C9_OnePivotPerRun ==
    HasPivots =>
        /\ \A r \in SwingRuns :
               LET bars == r[1]..r[2]
                   P    == {i \in bars : isPivot[i] # NaN}
               IN  /\ Cardinality(P) = 1
                   /\ \A i \in P :
                          IF swingline[r[1]] = 1
                          THEN /\ isPivot[i] = 1
                               /\ \A j \in bars : df[j].High <= df[i].High
                          ELSE /\ isPivot[i] = -1
                               /\ \A j \in bars : df[j].Low >= df[i].Low
        /\ \A i \in 1..Len(df) :
               StateOf(swingline[i]) = 0 => isPivot[i] = NaN

\* a run of several bars whose pivot is not its first bar, and an open run
C9_Witness ==
    /\ HasPivots
    /\ \E r \in SwingRuns :
           /\ r[2] > r[1]
           /\ isPivot[r[1]] = NaN
           /\ r[2] = Len(df)
    /\ Cardinality(SwingRuns) >= 2

\* the crossing condition of bar i (i >= 2) of the engine that produced the
\* swing line: for the oscillator, the previous bar's value beyond the
\* threshold and the one before at or on the other side; for the breakout,
\* the previous bar's close beyond the 'lookback' highs (lows) before it
CrossingAt(i) ==
    IF variant = "willpct"
    THEN LET w  == calculate_williams_percent(df, i - 1, williamsR)
             pw == calculate_williams_percent(df, i - 2, williamsR)
         IN  \/ /\ WprAbove(w, UpperThreshold)
                /\ ~pw.nan /\ ~WprAbove(pw, UpperThreshold)
             \/ /\ WprBelow(w, LowerThreshold)
                /\ ~pw.nan /\ ~WprBelow(pw, LowerThreshold)
    ELSE /\ i - 1 - BreakoutLookback >= 1
         /\ LET before == (i - 1 - BreakoutLookback)..(i - 2)
            IN  \/ \A k \in before : df[i - 1].Close > df[k].High
                \/ \A k \in before : df[i - 1].Close < df[k].Low

\* C10: once the swing state is UP or DOWN it is UP or DOWN at every later
\* bar, and it differs from the previous bar's state only at a bar where a
\* threshold-crossing condition holds.
C10_HeldUnlessCrossing ==
    stage # "raw" =>
        \A i \in 2..Len(df) :
            /\ StateOf(swingline[i - 1]) # 0 => StateOf(swingline[i]) # 0
            /\ StateOf(swingline[i]) # StateOf(swingline[i - 1])
                   => CrossingAt(i)

\* C11: at every bar past the oscillator warm-up (the period plus the
\* one-bar lag) the swing state of calculate_willpct_swing_lines is UP or
\* DOWN, never UNDEFINED.
C11_DefinedPastWarmup ==
    (stage # "raw" /\ variant = "willpct") =>
        \A i \in 1..Len(df) :
            i > williamsR + 1 => StateOf(swingline[i]) # 0

\* the bars that carry a BUY or a SELL base signal
SignalBars == {i \in 1..Len(df) : signal[i] # 0}

\* the bars at which a run of UP or of DOWN state starts
RunStartBars ==
    {i \in 1..Len(df) :
        /\ StateOf(swingline[i]) # 0
        /\ (i = 1 \/ StateOf(swingline[i - 1]) # StateOf(swingline[i]))}

\* the bars at which a run of UP or DOWN ends and the opposite run starts
RunChangeBars ==
    {i \in RunStartBars : i > 1 /\ StateOf(swingline[i - 1]) # 0}

\* C12: the bars carrying a non-NONE base signal are exactly the bars at
\* which the swing state changes from UP to DOWN or from DOWN to UP, so
\* their number is the number of such changes; the bar at which the first
\* run starts (the state leaves UNDEFINED) is not among them.
C12_SignalsAtRunChanges ==
    HasSignal =>
        /\ Cardinality(SignalBars) = Cardinality(RunChangeBars)
        /\ SignalBars \subseteq RunChangeBars

\* two signals after a first run that began without one
C12_Witness ==
    /\ HasSignal
    /\ Cardinality(SignalBars) >= 2
    /\ Cardinality(RunStartBars) = Cardinality(SignalBars) + 1

\* C12 as stated: the number of non-NONE signals is the number of bars at
\* which a new run starts, and every signal is on such a bar.
C12_SignalsCountRunStarts ==
    HasSignal =>
        /\ Cardinality(SignalBars) = Cardinality(RunStartBars)
        /\ SignalBars \subseteq RunStartBars

(***************************************************************************)
(* Properties of the position book.                                        *)
(***************************************************************************)
\* C13: whatever add_position and remove_position calls were made, no
\* symbol of the position book has lot size 0.
C13_NoZeroLots ==
    \A i \in 1..Len(portfolio.positions) : portfolio.positions[i][2] # 0

\* run() has been called on the book as it is
RunOnBook == Len(run_log) > 0

\* the last call of run() on the book as it is
LastRun == run_log[Len(run_log)]

\* C14: after a run that found the portfolio nominal value 0, the weight
\* map holds no non-zero weight and is empty when the book is empty, and
\* the run of an empty book returned a VaR of 0.
C14_ZeroNominalZeroWeights ==
    (RunOnBook /\ portfolio.portfolio_nominal_value = 0) =>
        /\ \A i \in 1..Len(portfolio.position_weights) :
               portfolio.position_weights[i][2] = 0
        /\ portfolio.positions = <<>> =>
               /\ portfolio.position_weights = <<>>
               /\ LastRun.raised = "none"
               /\ LastRun.returned = 0

\* C15: when a run was made on a book of exactly one symbol, whose weight
\* has magnitude 1, the portfolio standard deviation of that run is the
\* volatility of that symbol.
C15_SinglePositionStdDev ==
    (/\ RunOnBook
     /\ LastRun.raised = "none"
     /\ Len(portfolio.positions) = 1
     /\ Len(portfolio.position_weights) = 1
     /\ Abs(portfolio.position_weights[1][2]) = 100) =>
        portfolio.portfolio_std_dev = Volatility(portfolio.positions[1][1])

(***************************************************************************)
(* Properties of the live decision cycle.                                  *)
(***************************************************************************)
\* live_run was ended by the exception of a market-data fetch (and not by
\* one of a what-if evaluation)
EndedByFetch ==
    /\ thread \notin {"idle", "running", "returned"}
    /\ evaluation.raised = "none"

\* C16: a failed market-data fetch for a symbol lets no exception escape
\* live_run: the symbol is skipped and the call goes on with the remaining
\* symbols.
C16_FetchFailureSkipsSymbol == ~EndedByFetch

\* C17: a run excludes from the book every symbol whose symbol_info is
\* missing: after a run no such symbol is among the positions, the nominal
\* values or the weights.
C17_UnpricedSymbolExcluded ==
    RunOnBook =>
        /\ \A i \in 1..Len(portfolio.positions) :
               symbol_info[portfolio.positions[i][1]]
        /\ \A i \in 1..Len(portfolio.nominal_values) :
               symbol_info[portfolio.nominal_values[i][1]]
        /\ \A i \in 1..Len(portfolio.position_weights) :
               symbol_info[portfolio.position_weights[i][1]]

\* C18: every lot size get_optimized_lot_sizes returns has the sign of the
\* position it is for: not negative for a long position, not positive for
\* a short one.
C18_OptimizedSignPreserved ==
    (optimized.called /\ optimized.raised = "none") =>
        \A i \in 1..Len(optimized.lot_sizes) :
            LET symbol == optimized.lot_sizes[i][1]
                size   == optimized.lot_sizes[i][2]
                lots   == NetLots(portfolio.positions, symbol)
            IN  size.kind = "number" =>
                    /\ lots > 0 => size.value >= 0
                    /\ lots < 0 => size.value <= 0

(***************************************************************************)
(* Properties of position sizing.                                          *)
(***************************************************************************)
\* C19: the lot size get_position_size returns is never negative and, for
\* a raw quotient that is not negative, never greater than the raw
\* quotient: the quotient rounded down to the lot step.
C19_RoundedDown ==
    (sizing.called /\ sizing.raised = "none") =>
        /\ sizing.lots >= 0
        /\ sizing.num >= 0 => sizing.lots * sizing.den <= sizing.num

(***************************************************************************)
(* Properties of the reference bars.                                       *)
(***************************************************************************)
\* C20: within one run the last bar of the return window behind the
\* correlation is the last bar of the return window behind the volatility.
C20_SameReferencePoint ==
    (/\ reference.bars > 0
     /\ ~IsNaNWindow(reference.volatility_rows)
     /\ ~IsNaNWindow(reference.correlation_rows)) =>
        Max(reference.correlation_rows) = Max(reference.volatility_rows)

\* C21: when the optimizer reports non-convergence, optimize_portfolio
\* raises nothing, leaves position_weights as they were before the call and
\* returns those weights
C21_FailureKeepsWeights ==
    [][(optimized'.called /\ optimized'.minimize = "failure")
          => /\ portfolio'.position_weights = portfolio.position_weights
             /\ optimized'.weights = portfolio.position_weights]_vars

\* a non-converged optimization of a book whose minimum-variance weights
\* differ from the weights of the last run
C21_Witness ==
    /\ optimized.called
    /\ optimized.minimize = "failure"
    /\ optimized.weights # <<>>
    /\ optimized.weights = portfolio.position_weights
    /\ portfolio.raised \in {"none", "ZeroDivisionError"}
    /\ unchecked_optimize_portfolio(portfolio, FALSE).position_weights
          # portfolio.position_weights

(***************************************************************************)
(* Properties of Part V.                                                   *)
(***************************************************************************)
\* the tasks queued for the execution slot
WaitingForSlot == {name \in TaskNames : task[name].pc \in {"acquiring", "woken"}}

\* C22: with max_concurrent_tasks = 1, a task that waited for the slot starts
\* executing only when no task of higher priority is waiting for it
C22_HigherPriorityFirst ==
    [][\A name \in WaitingForSlot :
          (/\ manager.max_concurrent_tasks = 1
           /\ task'[name].status = "RUNNING")
          => \A other \in WaitingForSlot : priority(other) <= priority(name)]_vars

\* the dict wait_for_all returned has one TaskResult for every task of the
\* manager
OneResultPerTask ==
    /\ Len(caller.results) = Len(manager.tasks)
    /\ \A i \in 1..Len(caller.results) :
          /\ caller.results[i][1] = manager.tasks[i]
          /\ caller.results[i][2] \in {"COMPLETED", "FAILED"}

\* C24: every task added to the manager reaches COMPLETED or FAILED, and a
\* wait_for_all without timeout returns, with exactly one TaskResult per task
C24_EveryTaskEnds ==
    /\ \A name \in TaskNames :
          (task[name].pc # "new")
             ~> (task[name].status \in {"COMPLETED", "FAILED"})
    /\ (caller.state = "gathering") ~> (caller.state = "returned")
    /\ [](caller.state = "returned" => OneResultPerTask)

\* wait_for_all returned the results of three tasks that shared one slot,
\* two of which had to wait for it
C24_Witness ==
    /\ manager.max_concurrent_tasks = 1
    /\ caller.state = "returned"
    /\ Len(caller.results) = 3
    /\ OneResultPerTask
    /\ Cardinality({name \in TaskNames : task[name].waited}) = 2
    /\ \E name \in TaskNames : task[name].status = "FAILED"

\* C25: a task that cancel_task, cancel or stop was applied to while it was
\* started and not done has status CANCELLED from then on; its own run never
\* makes it COMPLETED or FAILED
C25_CancelledStaysCancelled ==
    \A name \in CancelNames :
        task[name].cancelling => task[name].status = "CANCELLED"

\* a task cancelled inside execute and a periodic task stopped inside its
\* loop, both after their asyncio tasks have ended
C25_Witness ==
    /\ task["task1"].cancelling
    /\ task["task1"].awaits = 1
    /\ task["task1"].pc = "cancelled"
    /\ task["periodic"].cancelling
    /\ task["periodic"].stop_event
    /\ task["periodic"].waited
    /\ task["periodic"].pc = "cancelled"

(***************************************************************************)
(* Properties of Part VI.                                                  *)
(***************************************************************************)
\* the crashes recorded within the window that ends at the call
CrashesWithinWindow(call) ==
    Cardinality({i \in 1..Len(call.log) :
                    call.now - call.log[i] <= call.crash_window_hours})

\* C23: should_restart returns True when no crash is recorded; returns True
\* and leaves crash_count 0 when the last crash is older than the window; and
\* otherwise returns False exactly when at least max_crashes crashes were
\* recorded within the window
C23_RestartDecision ==
    restart.called =>
        IF restart.log = <<>>
        THEN restart.returned
        ELSE IF restart.now - restart.log[Len(restart.log)]
                    > restart.crash_window_hours
        THEN restart.returned /\ restart.after.crash_count = 0
        ELSE restart.returned
                = (CrashesWithinWindow(restart) < restart.max_crashes)

\* C30: a start ended by one exception leaves crash_count one above what
\* should_restart found or left at the beginning of that start
C30_OneCrashPerFailedStart ==
    bot.outcome = "raised" => bot_state.crash_count = bot.checked.crash_count + 1

(***************************************************************************)
(* Properties of Part VII.                                                 *)
(***************************************************************************)
\* every call of the wrapped coroutine so far raised a listed exception
AllListed(calls) == \A i \in 1..Len(calls) : calls[i].kind \in exceptions

\* C26: when every call raises a listed exception the coroutine is called
\* exactly max_attempts times and the wrapper raises the exception of the
\* last call; when call k is the first to succeed the coroutine is called
\* exactly k times and the wrapper returns its value
C26_AttemptsAndOutcome ==
    /\ (retry.state \in {"returned", "raised"} /\ AllListed(retry.history))
          => /\ retry.state = "raised"
             /\ Len(retry.history) = retry.max_attempts
             /\ retry.outcome = <<retry.history[retry.max_attempts]>>
    /\ \A k \in 1..Len(retry.history) :
          (/\ retry.history[k].kind = "value"
           /\ AllListed(SubSeq(retry.history, 1, k - 1)))
          => /\ retry.state = "returned"
             /\ Len(retry.history) = k
             /\ k <= retry.max_attempts
             /\ retry.outcome = <<retry.history[k]>>

\* a wrapper with max_attempts = 3 raised after three calls that raised
\* listed exceptions, the first and the last of different types
C26_Witness ==
    /\ retry.max_attempts = 3
    /\ retry.state = "raised"
    /\ Len(retry.history) = 3
    /\ AllListed(retry.history)
    /\ retry.history[1].kind # retry.history[3].kind

(***************************************************************************)
(* Properties of Part VIII.                                                *)
(***************************************************************************)
\* C27: at most one monitor loop task exists, and a stop that found a task
\* returns with the task reference None and the stop event set
C27_OneMonitorLoop ==
    /\ Cardinality(Running) <= 1
    /\ (stops.last.returned /\ stops.last.found)
          => /\ stops.last._monitor_task = <<>>
             /\ stops.last._stop_event

(***************************************************************************)
(* Properties of the signal bar's pivots.                                  *)
(***************************************************************************)
\* the rows of the run that ended one bar before the last bar
EndedRun ==
    LET n == Len(df)
    IN  {i \in 1..(n - 1) :
            \A k \in i..(n - 1) : swingline[k] = swingline[n - 1]}

\* the last element of a sequence of prices
MostRecent(prices) == prices[Len(prices)]

\* C28: when the strategy validates a BUY edge on the last bar, the most
\* recent pivot high it compares is the High of that bar and the most recent
\* pivot low is the minimum Low of the DOWN run that just ended; for a SELL
\* edge the most recent pivot low is the Low of that bar and the most recent
\* pivot high is the maximum High of the UP run that just ended
C28_SignalBarIsPivot ==
    (stage = "strategy" /\ signal[Len(df)] # 0) =>
        LET n == Len(df)
        IN  /\ Len(compared.highs) >= 1
            /\ Len(compared.lows) >= 1
            /\ signal[n] = 1 =>
                  /\ MostRecent(compared.highs) = df[n].High
                  /\ \E i \in EndedRun : MostRecent(compared.lows) = df[i].Low
                  /\ \A i \in EndedRun : MostRecent(compared.lows) <= df[i].Low
            /\ signal[n] = -1 =>
                  /\ MostRecent(compared.lows) = df[n].Low
                  /\ \E i \in EndedRun : MostRecent(compared.highs) = df[i].High
                  /\ \A i \in EndedRun : MostRecent(compared.highs) >= df[i].High

\* a validated BUY edge, two pivot highs and two pivot lows compared, whose
\* signal bar is not the highest bar of the series and whose ended DOWN run
\* has several bars, the lowest of them not the last
C28_Witness ==
    /\ stage = "strategy"
    /\ strategy_signal = "Buy"
    /\ signal[Len(df)] = 1
    /\ Len(compared.highs) = 2
    /\ Len(compared.lows) = 2
    /\ \E i \in 1..Len(df) : df[i].High > df[Len(df)].High
    /\ Cardinality(EndedRun) >= 2
    /\ df[Len(df) - 1].Low > MostRecent(compared.lows)

\* C29: the flag calculate_doubles_signals writes agrees in direction with
\* the base signal of the same bar: +1 only at bars whose base signal is BUY
\* and -1 only at bars whose base signal is SELL
C29_FlagAgreesWithSignal ==
    stage = "doubles" =>
        \A i \in 1..Len(df) :
            /\ position[i] = 1 => signal[i] = 1
            /\ position[i] = -1 => signal[i] = -1

====
